---- MODULE Spec2Model ----
(***************************************************************************)
(* Gaze tracking core of mindmaker-v2: the per-frame orchestrator          *)
(* (useTracker.processFrame), BlinkDetector and GazeMapper.                *)
(*                                                                         *)
(* Units.  Time is counted in ticks of 250 ms (performance.now() read at   *)
(* tick resolution), EAR in hundredths, features and the normal-equation   *)
(* matrix in fixed point with FP units per 1.0, screen coordinates and     *)
(* regression coefficients in whole pixels.                                *)
(***************************************************************************)
EXTENDS Integers, Sequences, FiniteSets, TLC

(***************************************************************************)
(* Bounds of the model                                                     *)
(***************************************************************************)
MaxTime == 13         \* last tick at which a frame may start
MaxDt == 3            \* largest gap between two frames, in ticks
MaxFrames == 12       \* frames of a run that follows the gaze point
MaxMapperFrames == 3  \* frames of a run that exercises the mapper
MaxMapperCalls == 3   \* calibrate and resetCalibration calls in such a run
MaxLifeFrames == 3    \* frames of a run that mounts and unmounts the tracker
MaxBufferFrames == 18 \* frames of a run that fills the moving-average buffer
MaxBufferCalls == 2   \* calibrate and resetCalibration calls in such a run
MaxDegenerateFrames == 3  \* frames of a run on degenerate landmarks
MaxCalFrames == 467   \* frames of a calibration session
MaxLostFrames == 2    \* frames of a session that no stage has collected
MaxLossyStages == 2   \* stages of a session during which frames are lost
MaxBoardTime == 20    \* last tick at which a frame on the board may start
MaxBlinkFrames == 4   \* frames of a run that blinks on a fitted mapper
MaxAppFrames == 4     \* frames of a run that calibrates again
MaxAppCalls == 4      \* sessions completed and R keys pressed in such a run
MaxCleanLen == 5      \* frames of a list handed to cleanFrames
MaxSettle == 3        \* largest settleFrames handed to cleanFrames

(***************************************************************************)
(* config.ts                                                               *)
(***************************************************************************)
EAR_THRESHOLD == 21               \* 0.21
DOUBLE_BLINK_WINDOW_SEC == 2      \* 0.5 s
BLINK_MIN_FRAMES == 1
BLINK_MAX_FRAMES == 5
GAZE_FREEZE_EAR == 26             \* 0.26
GAZE_RECOVERY_FRAMES == 8
EYE_CLOSE_SELECT_SEC == 8         \* 2.0 s

\* EAR values a frame may show: below EAR_THRESHOLD, exactly EAR_THRESHOLD
\* (open for the blink detector, closed for the gaze gate), and exactly
\* GAZE_FREEZE_EAR (open for both).
EarInputs == {20, 21, 26}

VARIABLES
  clock,                \* last value read from performance.now(), in ticks
  blink,                \* blinkDetectorRef.current: the BlinkDetector's fields
  gaze,                 \* gazeMapperRef.current: the GazeMapper's fields
  lastGaze,             \* lastGazeRef.current
  recoveryCount,        \* recoveryCountRef.current
  eyeClosedStart,       \* eyeClosedStartRef.current (0 = eyes not closed)
  eyeCloseSelectFired,  \* eyeCloseSelectFiredRef.current
  state,                \* the snapshot last published with setState
  life,                 \* the effect's init(), cleanup and the resources held
  screen,               \* CalibrationScreen: its state hooks and refs
  app,                  \* App: its state hooks
  board,                \* CommBoard: its state hooks and refs
  frame,                \* what the last operation did (observation only)
  hist                  \* history of the run (observation only)

vars == <<clock, blink, gaze, lastGaze, recoveryCount, eyeClosedStart,
          eyeCloseSelectFired, state, life, screen, app, board, frame, hist>>

(***************************************************************************)
(* Fixed-point arithmetic                                                  *)
(***************************************************************************)
FP == 1000                        \* fixed-point units per 1.0
NULL == << >>                     \* null (no array has length 0 here)

Abs(x) == IF x < 0 THEN 0 - x ELSE x

\* Math.sqrt on a value with FP*FP units per 1.0, result with FP units per 1.0
RECURSIVE SqrtBetween(_, _, _)
SqrtBetween(x, lo, hi) ==
  IF lo >= hi THEN lo
  ELSE LET mid == (lo + hi + 1) \div 2
       IN IF mid * mid <= x THEN SqrtBetween(x, mid, hi)
                            ELSE SqrtBetween(x, lo, mid - 1)

Sqrt(x) == SqrtBetween(x, 0, 46340)

\* Array.prototype.reduce((s, v) => s + v, 0)
RECURSIVE SumTo(_, _)
SumTo(v, k) == IF k = 0 THEN 0 ELSE SumTo(v, k - 1) + v[k]

Sum(v) == SumTo(v, Len(v))

\* The array <<f[1], ..., f[n]>> with every element evaluated.
Arr(f, n) == SubSeq(f, 1, n)

(***************************************************************************)
(* GazeMapper.ts: minimal linear algebra                                   *)
(***************************************************************************)
polyFeatures(f) ==
  << FP, f.rx, f.ry, f.hx, f.hy, f.nx, f.ny,
     (f.rx * f.ry) \div FP, (f.rx * f.rx) \div FP, (f.ry * f.ry) \div FP >>

transpose(A) ==
  LET rows == Len(A)
      cols == Len(A[1])
  IN Arr([j \in 1..cols |-> Arr([i \in 1..rows |-> A[i][j]], rows)], cols)

matMul(A, B) ==
  LET m == Len(A)
      n == Len(B[1])
      p == Len(B)
  IN Arr([i \in 1..m |->
            Arr([j \in 1..n |->
                   Sum(Arr([k \in 1..p |-> A[i][k] * B[k][j]], p)) \div FP],
                n)],
         m)

matVecMul(A, v) ==
  Arr([i \in 1..Len(A) |->
         Sum(Arr([j \in 1..Len(v) |-> A[i][j] * v[j]], Len(v))) \div FP],
      Len(A))

\* The row the partial-pivot search of gaussianSolve stops at: the first row
\* from col on whose entry in column col has the largest absolute value.
pivotRow(aug, col, n) ==
  CHOOSE r \in col..n :
    /\ \A q \in col..n : Abs(aug[q][col]) <= Abs(aug[r][col])
    /\ \A q \in col..(r - 1) : Abs(aug[q][col]) < Abs(aug[r][col])

PIVOT_EPS == 1                    \* 1e-12: below the fixed-point resolution

\* Forward elimination from column col on; NULL when a pivot vanishes.
RECURSIVE eliminate(_, _, _)
eliminate(aug, col, n) ==
  IF col > n THEN aug
  ELSE LET maxRow == pivotRow(aug, col, n)
           swapped == Arr([i \in 1..n |-> IF i = col THEN aug[maxRow]
                                          ELSE IF i = maxRow THEN aug[col]
                                          ELSE aug[i]], n)
           piv == swapped[col][col]
           next == Arr([row \in 1..n |->
                     IF row <= col THEN swapped[row]
                     ELSE LET factor == (swapped[row][col] * FP) \div piv
                          IN Arr([j \in 1..(n + 1) |->
                                   IF j < col THEN swapped[row][j]
                                   ELSE swapped[row][j]
                                          - (factor * swapped[col][j]) \div FP],
                                 n + 1)], n)
       IN IF Abs(piv) < PIVOT_EPS THEN NULL
          ELSE eliminate(next, col + 1, n)

\* Back substitution: x[i..n] given x[(i+1)..n] in acc (acc[k] is x[i+k]).
RECURSIVE backSubstitute(_, _, _, _)
backSubstitute(aug, i, n, acc) ==
  IF i = 0 THEN acc
  ELSE LET rest == Sum(Arr([k \in 1..(n - i) |-> aug[i][i + k] * acc[k]],
                           n - i)) \div FP
           xi == ((aug[i][n + 1] - rest) * FP) \div aug[i][i]
       IN backSubstitute(aug, i - 1, n, <<xi>> \o acc)

gaussianSolve(A, b) ==
  LET n == Len(A)
      aug == Arr([i \in 1..n |-> Append(A[i], b[i])], n)
      tri == eliminate(aug, 1, n)
  IN IF tri = NULL THEN NULL ELSE backSubstitute(tri, n, n, <<>>)

\* solveLeastSquares: the matrix handed to gaussianSolve, AtA with lambda
\* added along the diagonal.
normalMatrix(A, lambda) ==
  LET AtA == matMul(transpose(A), A)
      n == Len(AtA)
  IN IF lambda > 0
     THEN Arr([i \in 1..n |->
             Arr([j \in 1..n |-> IF i = j THEN AtA[i][j] + lambda
                                 ELSE AtA[i][j]], n)], n)
     ELSE AtA

solveLeastSquares(A, b, lambda) ==
  gaussianSolve(normalMatrix(A, lambda), matVecMul(transpose(A), b))

(***************************************************************************)
(* GazeMapper: normalisation, fit and prediction as functions of the       *)
(* fields they read.                                                       *)
(***************************************************************************)
RIDGE_LAMBDA == 1000              \* 1.0
SMOOTHING_ALPHA == 5              \* 0.05, in hundredths
MOVING_AVG_SIZE == 15
MIN_MOVE_PX == 40
MIN_SAMPLES == 10
STD_EPS == 1                      \* 1e-9: below the fixed-point resolution

innerWidth == 800                 \* window.innerWidth
innerHeight == 600                \* window.innerHeight

\* normalizeFeatures: the mean and std it stores in this.featMean and
\* this.featStd, and the normalised matrix it returns.
normalizeFeatures(rawA) ==
  LET nCols == Len(rawA[1])
      n == Len(rawA)
      mean == Arr([j \in 1..nCols |->
                IF j = 1 THEN 0
                ELSE Sum(Arr([i \in 1..n |-> rawA[i][j]], n)) \div n], nCols)
      std == Arr([j \in 1..nCols |->
               IF j = 1 THEN FP
               ELSE LET sumSq == Sum(Arr([i \in 1..n |->
                                   (rawA[i][j] - mean[j]) * (rawA[i][j] - mean[j])],
                                   n))
                        sd == Sqrt(sumSq \div n)
                    IN IF sd < STD_EPS THEN FP ELSE sd], nCols)
  IN [ featMean |-> mean,
       featStd  |-> std,
       A |-> Arr([i \in 1..n |->
                Arr([j \in 1..nCols |->
                       IF j = 1 THEN FP
                       ELSE ((rawA[i][j] - mean[j]) * FP) \div std[j]], nCols)],
              n) ]

applyNormalization(feat, mean, std) ==
  IF mean = NULL \/ std = NULL THEN feat
  ELSE Arr([j \in 1..Len(feat) |->
              IF j = 1 THEN FP ELSE ((feat[j] - mean[j]) * FP) \div std[j]],
           Len(feat))

\* The linear prediction of predict (rawX or rawY), in pixels.
rawPrediction(features, coeffs, mean, std) ==
  LET feat == applyNormalization(polyFeatures(features), mean, std)
  IN Sum(Arr([i \in 1..Len(feat) |-> feat[i] * coeffs[i]], Len(feat))) \div FP

\* calibrateFit with solveLeastSquares left at its default lambda = 0.
calibrateFitNoRidge(samples) ==
  LET n == Len(samples)
      rawA == Arr([i \in 1..n |-> polyFeatures(samples[i])], n)
      norm == normalizeFeatures(rawA)
      bx == Arr([i \in 1..n |-> samples[i].screenX], n)
      by == Arr([i \in 1..n |-> samples[i].screenY], n)
  IN [ featMean |-> norm.featMean,
       featStd  |-> norm.featStd,
       cx |-> solveLeastSquares(norm.A, bx, 0),
       cy |-> solveLeastSquares(norm.A, by, 0) ]

\* What calibrate computes from a sample list that passed the length check.
calibrateFit(samples) ==
  LET n == Len(samples)
      rawA == Arr([i \in 1..n |-> polyFeatures(samples[i])], n)
      norm == normalizeFeatures(rawA)
      bx == Arr([i \in 1..n |-> samples[i].screenX], n)
      by == Arr([i \in 1..n |-> samples[i].screenY], n)
  IN [ featMean |-> norm.featMean,
       featStd  |-> norm.featStd,
       cx |-> solveLeastSquares(norm.A, bx, RIDGE_LAMBDA),
       cy |-> solveLeastSquares(norm.A, by, RIDGE_LAMBDA) ]

(***************************************************************************)
(* Inputs                                                                  *)
(***************************************************************************)
\* Ten targets on a 5 x 2 grid, the iris position linear in the target.
GridSamples ==
  Arr([k \in 1..10 |->
         LET c == (k - 1) % 5
             r == (k - 1) \div 5
         IN [ rx |-> 300 + 100 * c, ry |-> 100 * r - 50,
              hx |-> 0, hy |-> 0, nx |-> 500, ny |-> 500,
              screenX |-> 200 * c, screenY |-> 600 * r ]], 10)

\* The same features looked at with the targets mirrored.
MirrorSamples ==
  Arr([k \in 1..10 |->
         [GridSamples[k] EXCEPT !.screenX = 800 - @, !.screenY = 600 - @]], 10)

\* Ten copies of one sample: every feature column is constant.
FlatSamples == Arr([k \in 1..10 |-> GridSamples[7]], 10)

\* Twelve targets on a 6 x 2 grid, the iris position linear in the target,
\* except for one sample recorded while the user looked away from its target.
OutlierSamples ==
  Arr([k \in 1..12 |->
         LET c == (k - 1) % 6
             r == (k - 1) \div 6
         IN [ rx |-> IF k = 9 THEN 700 ELSE 300 + 80 * c,
              ry |-> IF k = 9 THEN 0 - 50 ELSE 100 * r - 50,
              hx |-> 0, hy |-> 0, nx |-> 500, ny |-> 500,
              screenX |-> 160 * c, screenY |-> 600 * r ]], 12)

\* One sample too few.
ShortSamples == SubSeq(GridSamples, 1, 9)

SampleInputs ==
  {GridSamples, MirrorSamples, FlatSamples, ShortSamples, OutlierSamples}

\* calibrateFit of every sample list, computed once.
FitTable == [s \in SampleInputs |-> calibrateFit(s)]

\* Features of a frame: looking at the top-left and at the bottom-right target.
FeatureInputs ==
  { [rx |-> 300, ry |-> 0 - 50, hx |-> 0, hy |-> 0, nx |-> 500, ny |-> 500],
    [rx |-> 700, ry |-> 50,     hx |-> 0, hy |-> 0, nx |-> 500, ny |-> 500] }

\* The same, and looking past the bottom-right corner of the screen.
MapperFeatures ==
  FeatureInputs \cup
    { [rx |-> 900, ry |-> 150, hx |-> 0, hy |-> 0, nx |-> 500, ny |-> 500] }

\* A landmark frame of a face that looks in the direction of features f: the
\* eye corners 0.1 apart at the height of the nose tip, each iris outlined
\* by four points around its centre.  Coordinates have FP units per 1.0.
LandmarksFor(f) ==
  LET iris(cx, cy) == << [x |-> cx - 10, y |-> cy], [x |-> cx + 10, y |-> cy],
                         [x |-> cx, y |-> cy - 10], [x |-> cx, y |-> cy + 10] >>
      dx == f.rx \div 10
      dy == f.ry \div 10
  IN [ LEFT_IRIS |-> iris(550 + dx, f.ny + dy),
       RIGHT_IRIS |-> iris(450 + dx, f.ny + dy),
       LEFT_EYE_INNER |-> [x |-> 550, y |-> f.ny],
       LEFT_EYE_OUTER |-> [x |-> 650, y |-> f.ny],
       RIGHT_EYE_INNER |-> [x |-> 450, y |-> f.ny],
       RIGHT_EYE_OUTER |-> [x |-> 350, y |-> f.ny],
       NOSE_TIP |-> [x |-> f.nx, y |-> f.ny] ]

LandmarkInputs == {LandmarksFor(f) : f \in FeatureInputs}

MapperLandmarks == {LandmarksFor(f) : f \in MapperFeatures}

\* The six contour landmarks of an eye with corners a and b whose lids are
\* h above and below the line of the corners.
EyeContour(a, b, h) ==
  << a,
     [x |-> (2 * a.x + b.x) \div 3, y |-> (2 * a.y + b.y) \div 3 - h],
     [x |-> (a.x + 2 * b.x) \div 3, y |-> (a.y + 2 * b.y) \div 3 - h],
     b,
     [x |-> (a.x + 2 * b.x) \div 3, y |-> (a.y + 2 * b.y) \div 3 + h],
     [x |-> (2 * a.x + b.x) \div 3, y |-> (2 * a.y + b.y) \div 3 + h] >>

\* A landmark frame with the eye corners given, each iris centred dx to the
\* right of its inner corner, and the nose tip at (500, 500).  LEFT_EYE and
\* RIGHT_EYE start at the corner their index lists start at (362, 33).
Face(lInner, lOuter, rInner, rOuter, h, dx) ==
  LET iris(c) == << [x |-> c.x - 10, y |-> c.y], [x |-> c.x + 10, y |-> c.y],
                    [x |-> c.x, y |-> c.y - 10], [x |-> c.x, y |-> c.y + 10] >>
  IN [ LEFT_IRIS |-> iris([x |-> lInner.x + dx, y |-> lInner.y]),
       RIGHT_IRIS |-> iris([x |-> rInner.x + dx, y |-> rInner.y]),
       LEFT_EYE_INNER |-> lInner,
       LEFT_EYE_OUTER |-> lOuter,
       RIGHT_EYE_INNER |-> rInner,
       RIGHT_EYE_OUTER |-> rOuter,
       NOSE_TIP |-> [x |-> 500, y |-> 500],
       LEFT_EYE |-> EyeContour(lInner, lOuter, h),
       RIGHT_EYE |-> EyeContour(rOuter, rInner, h) ]

\* Landmark frames: a regular face with open and with closed eyes, and faces
\* whose left eye, right eye, both eyes or all four eye corners fall on one
\* point, or whose eye corners lie above one another.
DegenerateLandmarks ==
  LET pt(x, y) == [x |-> x, y |-> y]
  IN { Face(pt(550, 500), pt(650, 500), pt(450, 500), pt(350, 500), 15, 30),
       Face(pt(550, 500), pt(650, 500), pt(450, 500), pt(350, 500), 5, 30),
       Face(pt(550, 500), pt(550, 500), pt(450, 500), pt(350, 500), 0, 30),
       Face(pt(550, 500), pt(650, 500), pt(450, 500), pt(450, 500), 0, 30),
       Face(pt(550, 500), pt(550, 500), pt(450, 500), pt(450, 500), 0, 0),
       Face(pt(500, 500), pt(500, 500), pt(500, 500), pt(500, 500), 0, 0),
       Face(pt(500, 500), pt(500, 500), pt(500, 500), pt(500, 500), 15, 30),
       Face(pt(550, 480), pt(550, 520), pt(450, 480), pt(450, 520), 15, 30) }

Min(a, b) == IF a < b THEN a ELSE b
Max(a, b) == IF a > b THEN a ELSE b

(***************************************************************************)
(* GazeMapper                                                              *)
(***************************************************************************)
\* The fields of a new GazeMapper
NewGazeMapper ==
  [ coeffsX |-> NULL, coeffsY |-> NULL, featMean |-> NULL, featStd |-> NULL,
    smoothX |-> 0, smoothY |-> 0, outputX |-> 0, outputY |-> 0,
    firstPrediction |-> TRUE, bufX |-> << >>, bufY |-> << >> ]

isCalibrated(g) == g.coeffsX # NULL

\* irisCenter(landmarks, indices), with points the landmarks at the indices
irisCenter(points) ==
  [ x |-> Sum(Arr([i \in 1..Len(points) |-> points[i].x], Len(points)))
            \div Len(points),
    y |-> Sum(Arr([i \in 1..Len(points) |-> points[i].y], Len(points)))
            \div Len(points) ]

\* extractFeatures that hands out the iris position in the units of the
\* fitted model: rx and ry normalised with featMean and featStd.
extractFeaturesNormalized(g, landmarks) ==
  LET lc == irisCenter(landmarks.LEFT_IRIS)
      lInner == landmarks.LEFT_EYE_INNER
      lOuter == landmarks.LEFT_EYE_OUTER
      lW == Abs(lOuter.x - lInner.x)
      lMidY == (lInner.y + lOuter.y) \div 2
      lRx == IF lW > 0 THEN ((lc.x - lInner.x) * FP) \div lW ELSE FP \div 2
      lRy == IF lW > 0 THEN ((lc.y - lMidY) * FP) \div lW ELSE 0
      rc == irisCenter(landmarks.RIGHT_IRIS)
      rInner == landmarks.RIGHT_EYE_INNER
      rOuter == landmarks.RIGHT_EYE_OUTER
      rW == Abs(rOuter.x - rInner.x)
      rMidY == (rInner.y + rOuter.y) \div 2
      rRx == IF rW > 0 THEN ((rc.x - rInner.x) * FP) \div rW ELSE FP \div 2
      rRy == IF rW > 0 THEN ((rc.y - rMidY) * FP) \div rW ELSE 0
      nose == landmarks.NOSE_TIP
      eyeMidX == (lInner.x + rInner.x) \div 2
      eyeMidY == (lInner.y + rInner.y) \div 2
      interEyeDist == Sqrt((rInner.x - lInner.x) * (rInner.x - lInner.x)
                             + (rInner.y - lInner.y) * (rInner.y - lInner.y))
      rx == (lRx + rRx) \div 2
      ry == (lRy + rRy) \div 2
  IN [ g |-> g,
       features |->
         [ rx |-> IF g.featMean = NULL THEN rx
                  ELSE ((rx - g.featMean[2]) * FP) \div g.featStd[2],
           ry |-> IF g.featMean = NULL THEN ry
                  ELSE ((ry - g.featMean[3]) * FP) \div g.featStd[3],
           hx |-> IF interEyeDist > 0
                  THEN ((nose.x - eyeMidX) * FP) \div interEyeDist ELSE 0,
           hy |-> IF interEyeDist > 0
                  THEN ((nose.y - eyeMidY) * FP) \div interEyeDist ELSE 0,
           nx |-> nose.x,
           ny |-> nose.y ] ]

\* extractFeatures(landmarks): the mapper afterwards and the features
\* returned.  The guards compare with 1e-6, below the fixed-point resolution.
extractFeatures(g, landmarks) ==
  LET lc == irisCenter(landmarks.LEFT_IRIS)
      lInner == landmarks.LEFT_EYE_INNER
      lOuter == landmarks.LEFT_EYE_OUTER
      lW == Abs(lOuter.x - lInner.x)
      lMidY == (lInner.y + lOuter.y) \div 2
      lRx == IF lW > 0 THEN ((lc.x - lInner.x) * FP) \div lW ELSE FP \div 2
      lRy == IF lW > 0 THEN ((lc.y - lMidY) * FP) \div lW ELSE 0
      rc == irisCenter(landmarks.RIGHT_IRIS)
      rInner == landmarks.RIGHT_EYE_INNER
      rOuter == landmarks.RIGHT_EYE_OUTER
      rW == Abs(rOuter.x - rInner.x)
      rMidY == (rInner.y + rOuter.y) \div 2
      rRx == IF rW > 0 THEN ((rc.x - rInner.x) * FP) \div rW ELSE FP \div 2
      rRy == IF rW > 0 THEN ((rc.y - rMidY) * FP) \div rW ELSE 0
      nose == landmarks.NOSE_TIP
      eyeMidX == (lInner.x + rInner.x) \div 2
      eyeMidY == (lInner.y + rInner.y) \div 2
      interEyeDist == Sqrt((rInner.x - lInner.x) * (rInner.x - lInner.x)
                             + (rInner.y - lInner.y) * (rInner.y - lInner.y))
  IN [ g |-> g,
       features |->
         [ rx |-> (lRx + rRx) \div 2,
           ry |-> (lRy + rRy) \div 2,
           hx |-> IF interEyeDist > 0
                  THEN ((nose.x - eyeMidX) * FP) \div interEyeDist ELSE 0,
           hy |-> IF interEyeDist > 0
                  THEN ((nose.y - eyeMidY) * FP) \div interEyeDist ELSE 0,
           nx |-> nose.x,
           ny |-> nose.y ] ]

\* reset()
reset(g) ==
  [g EXCEPT !.coeffsX = NULL, !.coeffsY = NULL,
            !.featMean = NULL, !.featStd = NULL,
            !.firstPrediction = TRUE,
            !.smoothX = 0, !.smoothY = 0, !.outputX = 0, !.outputY = 0,
            !.bufX = << >>, !.bufY = << >>]

\* calibrate that keeps the normalisation of the model it replaces.
calibrateKeepsNormalization(g, samples) ==
  IF Len(samples) < MIN_SAMPLES THEN [g |-> g, ok |-> FALSE]
  ELSE LET fit == FitTable[samples]
           g1 == IF g.featMean # NULL THEN g
                 ELSE [g EXCEPT !.featMean = fit.featMean,
                                !.featStd = fit.featStd]
       IN IF fit.cx = NULL \/ fit.cy = NULL THEN [g |-> g1, ok |-> FALSE]
          ELSE [ g |-> [g1 EXCEPT !.coeffsX = fit.cx, !.coeffsY = fit.cy,
                                  !.firstPrediction = TRUE,
                                  !.bufX = << >>, !.bufY = << >>],
                 ok |-> TRUE ]

\* calibrate with the features normalised before the length check.
calibrateNormalizesFirst(g, samples) ==
  LET fit == FitTable[samples]
      g1 == [g EXCEPT !.featMean = fit.featMean, !.featStd = fit.featStd]
  IN IF Len(samples) < MIN_SAMPLES THEN [g |-> g1, ok |-> FALSE]
     ELSE IF fit.cx = NULL \/ fit.cy = NULL THEN [g |-> g1, ok |-> FALSE]
     ELSE [ g |-> [g1 EXCEPT !.coeffsX = fit.cx, !.coeffsY = fit.cy,
                             !.firstPrediction = TRUE,
                             !.bufX = << >>, !.bufY = << >>],
            ok |-> TRUE ]

\* calibrate that leaves the smoothing state as it is.
calibrateKeepsSmoothing(g, samples) ==
  IF Len(samples) < MIN_SAMPLES THEN [g |-> g, ok |-> FALSE]
  ELSE LET fit == FitTable[samples]
           g1 == [g EXCEPT !.featMean = fit.featMean, !.featStd = fit.featStd]
       IN IF fit.cx = NULL \/ fit.cy = NULL THEN [g |-> g1, ok |-> FALSE]
          ELSE [ g |-> [g1 EXCEPT !.coeffsX = fit.cx, !.coeffsY = fit.cy],
                 ok |-> TRUE ]

\* calibrate(samples): the mapper afterwards and the value returned.
calibrate(g, samples) ==
  IF Len(samples) < MIN_SAMPLES THEN [g |-> g, ok |-> FALSE]
  ELSE LET fit == FitTable[samples]
           \* normalizeFeatures has stored the batch's mean and std
           g1 == [g EXCEPT !.featMean = fit.featMean, !.featStd = fit.featStd]
       IN IF fit.cx = NULL \/ fit.cy = NULL THEN [g |-> g1, ok |-> FALSE]
          ELSE [ g |-> [g1 EXCEPT !.coeffsX = fit.cx, !.coeffsY = fit.cy,
                                  !.firstPrediction = TRUE,
                                  !.bufX = << >>, !.bufY = << >>],
                 ok |-> TRUE ]

\* Stage 2 of predict without the shift.
pushBufferNoShift(buf, v) == Append(buf, v)

\* Stage 2 of predict: push, then shift when longer than MOVING_AVG_SIZE.
pushBuffer(buf, v) ==
  LET pushed == Append(buf, v)
  IN IF Len(pushed) > MOVING_AVG_SIZE THEN Tail(pushed) ELSE pushed

\* predict without stage 3: the output follows the moving average.
predictWithoutDeadZone(g, features) ==
  IF g.coeffsX = NULL \/ g.coeffsY = NULL THEN [g |-> g, x |-> 0, y |-> 0]
  ELSE
    LET rawX == rawPrediction(features, g.coeffsX, g.featMean, g.featStd)
        rawY == rawPrediction(features, g.coeffsY, g.featMean, g.featStd)
        smoothX == IF g.firstPrediction THEN rawX
                   ELSE (SMOOTHING_ALPHA * rawX
                           + (100 - SMOOTHING_ALPHA) * g.smoothX) \div 100
        smoothY == IF g.firstPrediction THEN rawY
                   ELSE (SMOOTHING_ALPHA * rawY
                           + (100 - SMOOTHING_ALPHA) * g.smoothY) \div 100
        bufX == pushBuffer(g.bufX, smoothX)
        bufY == pushBuffer(g.bufY, smoothY)
        outputX == Sum(bufX) \div Len(bufX)
        outputY == Sum(bufY) \div Len(bufY)
    IN [ g |-> [g EXCEPT !.smoothX = smoothX, !.smoothY = smoothY,
                         !.outputX = outputX, !.outputY = outputY,
                         !.firstPrediction = FALSE,
                         !.bufX = bufX, !.bufY = bufY],
         x |-> Max(0, Min(innerWidth, outputX)),
         y |-> Max(0, Min(innerHeight, outputY)) ]

\* predict without stage 4: the held output is returned as it is.
predictUnclamped(g, features) ==
  IF g.coeffsX = NULL \/ g.coeffsY = NULL THEN [g |-> g, x |-> 0, y |-> 0]
  ELSE
    LET rawX == rawPrediction(features, g.coeffsX, g.featMean, g.featStd)
        rawY == rawPrediction(features, g.coeffsY, g.featMean, g.featStd)
        smoothX == IF g.firstPrediction THEN rawX
                   ELSE (SMOOTHING_ALPHA * rawX
                           + (100 - SMOOTHING_ALPHA) * g.smoothX) \div 100
        smoothY == IF g.firstPrediction THEN rawY
                   ELSE (SMOOTHING_ALPHA * rawY
                           + (100 - SMOOTHING_ALPHA) * g.smoothY) \div 100
        heldX == IF g.firstPrediction THEN rawX ELSE g.outputX
        heldY == IF g.firstPrediction THEN rawY ELSE g.outputY
        bufX == pushBuffer(g.bufX, smoothX)
        bufY == pushBuffer(g.bufY, smoothY)
        avgX == Sum(bufX) \div Len(bufX)
        avgY == Sum(bufY) \div Len(bufY)
        dx == avgX - heldX
        dy == avgY - heldY
        moved == dx * dx + dy * dy > MIN_MOVE_PX * MIN_MOVE_PX
        outputX == IF moved THEN avgX ELSE heldX
        outputY == IF moved THEN avgY ELSE heldY
    IN [ g |-> [g EXCEPT !.smoothX = smoothX, !.smoothY = smoothY,
                         !.outputX = outputX, !.outputY = outputY,
                         !.firstPrediction = FALSE,
                         !.bufX = bufX, !.bufY = bufY],
         x |-> outputX,
         y |-> outputY ]

\* predict(features): the mapper afterwards and the point returned.
predict(g, features) ==
  IF g.coeffsX = NULL \/ g.coeffsY = NULL THEN [g |-> g, x |-> 0, y |-> 0]
  ELSE
    LET rawX == rawPrediction(features, g.coeffsX, g.featMean, g.featStd)
        rawY == rawPrediction(features, g.coeffsY, g.featMean, g.featStd)
        \* Stage 1: exponential moving average
        smoothX == IF g.firstPrediction THEN rawX
                   ELSE (SMOOTHING_ALPHA * rawX
                           + (100 - SMOOTHING_ALPHA) * g.smoothX) \div 100
        smoothY == IF g.firstPrediction THEN rawY
                   ELSE (SMOOTHING_ALPHA * rawY
                           + (100 - SMOOTHING_ALPHA) * g.smoothY) \div 100
        heldX == IF g.firstPrediction THEN rawX ELSE g.outputX
        heldY == IF g.firstPrediction THEN rawY ELSE g.outputY
        \* Stage 2: moving average buffer
        bufX == pushBuffer(g.bufX, smoothX)
        bufY == pushBuffer(g.bufY, smoothY)
        avgX == Sum(bufX) \div Len(bufX)
        avgY == Sum(bufY) \div Len(bufY)
        \* Stage 3: minimum movement threshold (Math.hypot(dx, dy) > MIN_MOVE_PX)
        dx == avgX - heldX
        dy == avgY - heldY
        moved == dx * dx + dy * dy > MIN_MOVE_PX * MIN_MOVE_PX
        outputX == IF moved THEN avgX ELSE heldX
        outputY == IF moved THEN avgY ELSE heldY
    IN [ g |-> [g EXCEPT !.smoothX = smoothX, !.smoothY = smoothY,
                         !.outputX = outputX, !.outputY = outputY,
                         !.firstPrediction = FALSE,
                         !.bufX = bufX, !.bufY = bufY],
         \* Stage 4: clamp to screen
         x |-> Max(0, Min(innerWidth, outputX)),
         y |-> Max(0, Min(innerHeight, outputY)) ]

(***************************************************************************)
(* BlinkDetector                                                           *)
(***************************************************************************)
\* dist(a, b): Math.hypot of the coordinate differences
dist(a, b) == Sqrt((a.x - b.x) * (a.x - b.x) + (a.y - b.y) * (a.y - b.y))

EAR_DEFAULT == 30                 \* 0.3
EAR_EPS == 1                      \* 1e-6: below the fixed-point resolution

\* computeEAR that takes an eye without width for a closed eye.
computeEARClosedDefault(p) ==
  LET vertical1 == dist(p[2], p[6])
      vertical2 == dist(p[3], p[5])
      horizontal == dist(p[1], p[4])
  IN IF horizontal < EAR_EPS THEN 0
     ELSE ((vertical1 + vertical2) * 100) \div (2 * horizontal)

\* computeEAR(landmarks, eyeIndices), with p the six landmarks at the
\* indices; the result in hundredths.
computeEAR(p) ==
  LET vertical1 == dist(p[2], p[6])
      vertical2 == dist(p[3], p[5])
      horizontal == dist(p[1], p[4])
  IN IF horizontal < EAR_EPS THEN EAR_DEFAULT
     ELSE ((vertical1 + vertical2) * 100) \div (2 * horizontal)

\* The value update(landmarks) stores in this.ear
earOfLandmarks(landmarks) ==
  (computeEAR(landmarks.LEFT_EYE) + computeEAR(landmarks.RIGHT_EYE)) \div 2

NewBlinkDetector ==
  [ ear |-> 0, blinkCount |-> 0, doubleBlink |-> FALSE,
    closedFrames |-> 0, wasClosed |-> FALSE, blinkTimes |-> << >> ]

\* registerBlink that keeps the history after a double blink.
registerBlinkKeepsHistory(b, now) ==
  LET pushed == Append(b.blinkTimes, now)
      recent == SelectSeq(pushed,
                          LAMBDA t : now - t < DOUBLE_BLINK_WINDOW_SEC * 2)
      isDouble == /\ Len(recent) >= 2
                  /\ recent[Len(recent)] - recent[Len(recent) - 1]
                       <= DOUBLE_BLINK_WINDOW_SEC
  IN [b EXCEPT !.blinkCount = @ + 1,
               !.blinkTimes = recent,
               !.doubleBlink = IF isDouble THEN TRUE ELSE @]

\* registerBlink that never drops an old blink.
registerBlinkWithoutFilter(b, now) ==
  LET pushed == Append(b.blinkTimes, now)
      isDouble == /\ Len(pushed) >= 2
                  /\ pushed[Len(pushed)] - pushed[Len(pushed) - 1]
                       <= DOUBLE_BLINK_WINDOW_SEC
  IN [b EXCEPT !.blinkCount = @ + 1,
               !.blinkTimes = IF isDouble THEN << >> ELSE pushed,
               !.doubleBlink = IF isDouble THEN TRUE ELSE @]

\* registerBlink(), with now the value it reads from performance.now()
registerBlink(b, now) ==
  LET pushed == Append(b.blinkTimes, now)
      recent == SelectSeq(pushed,
                          LAMBDA t : now - t < DOUBLE_BLINK_WINDOW_SEC * 2)
      isDouble == /\ Len(recent) >= 2
                  /\ recent[Len(recent)] - recent[Len(recent) - 1]
                       <= DOUBLE_BLINK_WINDOW_SEC
  IN [b EXCEPT !.blinkCount = @ + 1,
               !.blinkTimes = IF isDouble THEN << >> ELSE recent,
               !.doubleBlink = IF isDouble THEN TRUE ELSE @]

\* isBlinkRun with the upper bound exclusive.
isBlinkRunBelowMax(b) ==
  /\ b.wasClosed
  /\ b.closedFrames >= BLINK_MIN_FRAMES
  /\ b.closedFrames < BLINK_MAX_FRAMES

\* A closed run of this length ended by an open frame is a blink.
isBlinkRun(b) ==
  /\ b.wasClosed
  /\ b.closedFrames >= BLINK_MIN_FRAMES
  /\ b.closedFrames <= BLINK_MAX_FRAMES

\* update that does not clear doubleBlink at the start of the frame.
updateKeepsDoubleBlink(b, e, now) ==
  LET b1 == [b EXCEPT !.ear = e]
  IN IF e < EAR_THRESHOLD
     THEN [b1 EXCEPT !.closedFrames = @ + 1, !.wasClosed = TRUE]
     ELSE LET b2 == IF isBlinkRun(b1) THEN registerBlink(b1, now) ELSE b1
          IN [b2 EXCEPT !.closedFrames = 0, !.wasClosed = FALSE]

\* update that counts a frame as closed up to an EAR just above the gaze
\* gate's threshold.
updateClosedAboveFreeze(b, e, now) ==
  LET b1 == [b EXCEPT !.ear = e, !.doubleBlink = FALSE]
  IN IF e < GAZE_FREEZE_EAR + 1
     THEN [b1 EXCEPT !.closedFrames = @ + 1, !.wasClosed = TRUE]
     ELSE LET b2 == IF isBlinkRun(b1) THEN registerBlink(b1, now) ELSE b1
          IN [b2 EXCEPT !.closedFrames = 0, !.wasClosed = FALSE]

\* update(landmarks), with e the EAR computed from the landmarks
update(b, e, now) ==
  LET b1 == [b EXCEPT !.ear = e, !.doubleBlink = FALSE]
  IN IF e < EAR_THRESHOLD
     THEN [b1 EXCEPT !.closedFrames = @ + 1, !.wasClosed = TRUE]
     ELSE LET b2 == IF isBlinkRun(b1) THEN registerBlink(b1, now) ELSE b1
          IN [b2 EXCEPT !.closedFrames = 0, !.wasClosed = FALSE]

(***************************************************************************)
(* useTracker                                                              *)
(***************************************************************************)
NoFeatures == [rx |-> 0, ry |-> 0, hx |-> 0, hy |-> 0, nx |-> 0, ny |-> 0]

\* INITIAL_STATE (isLoading, error and fps are not modelled)
INITIAL_STATE ==
  [ faceDetected |-> FALSE, ear |-> 0, blinkCount |-> 0,
    doubleBlink |-> FALSE, features |-> NoFeatures,
    gazeX |-> 0, gazeY |-> 0, gazeValid |-> FALSE,
    eyesClosed |-> FALSE, eyeClosedSec |-> 0, eyeCloseSelect |-> FALSE ]

NoFrame ==
  [ op |-> "init", face |-> FALSE, frozen |-> FALSE, predicted |-> FALSE,
    resumed |-> FALSE, registered |-> FALSE, select |-> FALSE,
    sinceDouble |-> 0, ok |-> FALSE, n |-> 0, run |-> 0,
    moved |-> FALSE, landmarks |-> NULL, repeat |-> FALSE,
    accepted |-> FALSE, sinceAccept |-> 0 - 1,
    settle |-> 0, src |-> NULL, kept |-> NULL, cleaned |-> NULL ]

None == 0 - 1                     \* no such tick, no such count

\* History of the run, read by the properties only:
\*   runStart     tick of the first frame of the current run of face frames
\*                with closed eyes (EAR below GAZE_FREEZE_EAR), or None
\*   runLast      tick of the last frame of that run, or None
\*   runPrev      tick of the frame before the last one in that run, or None
\*   openRun      face frames with open eyes since the last face frame with
\*                closed eyes (None before the first closed frame)
\*   frozenLast   the last face frame left the gaze point frozen
\*   blinkRun     updates in a row with EAR below EAR_THRESHOLD, up to the
\*                last update (frame.run: the same before the last update)
\*   blinksSince  blinks registered since the last doubleBlink
\*   lastDouble   tick of the last doubleBlink, or None
\*   calls, fits  calibrate/resetCalibration calls, successful calibrations
\*   fittedOn     the sample list of the last successful calibration
\*   predicts     calls of predict on a fitted model since the last
\*                successful calibration or reset
\*   smoothed     the smoothX and smoothY those calls left, in order
\*   stale        predict was called under a model since replaced or discarded
\*   gazeAtClosure  the point of the snapshot published last before the
\*                closure being timed began (NULL while none is timed)
\*   lastAccept   tick of the last call of triggerSelect that passed the
\*                cooldown check, or None
\*   closureAccepts  such calls since the closure being timed began
\*   recalibrating  handleRecalibrate has run and no calibration has
\*                succeeded since
NoHistory ==
  [ runStart |-> None, runLast |-> None, runPrev |-> None, openRun |-> None,
    frozenLast |-> FALSE, blinkRun |-> 0, blinksSince |-> 0,
    lastDouble |-> None,
    calls |-> 0, fits |-> 0, fittedOn |-> NULL,
    predicts |-> 0, smoothed |-> << >>, stale |-> FALSE,
    gazeAtClosure |-> NULL, lastAccept |-> None, closureAccepts |-> 0,
    recalibrating |-> FALSE ]

(***************************************************************************)
(* App                                                                     *)
(***************************************************************************)
\* The component when it has mounted:
\*   screen   "loading", "calibrating" or "communicating"
NewApp == [screen |-> "loading"]

\* A render of App with the tracker's isLoading and error of l: the screen
\* leaves "loading" when loading has finished without an error.
appRender(a, l) ==
  IF a.screen = "loading" /\ ~l.isLoading /\ ~l.error
  THEN [a EXCEPT !.screen = "calibrating"]
  ELSE a

\* App renders CalibrationScreen.
CalibrationShown ==
  app.screen = "calibrating" /\ ~life.isLoading /\ ~life.error

\* App renders CommBoard.
BoardShown == app.screen = "communicating"

(***************************************************************************)
(* CalibrationScreen.  A change of state is rendered, and the effects of   *)
(* the render run, before the next frame or key press is handled.          *)
(***************************************************************************)
CALIBRATION_GRID_ROWS == 4
CALIBRATION_GRID_COLS == 4
FRAMES_PER_POINT == 30
CALIBRATION_SETTLE_FRAMES == 5
CALIBRATION_OUTLIER_STD == 15     \* 1.5, in tenths
MARGIN == 10                      \* 0.1, in hundredths

NaN == "NaN"

\* generatePoints(): the targets, row by row
generatePoints ==
  LET w == innerWidth
      h == innerHeight
      mx == (w * MARGIN) \div 100
      my == (h * MARGIN) \div 100
      n == CALIBRATION_GRID_ROWS * CALIBRATION_GRID_COLS
  IN Arr([k \in 1..n |->
            LET r == (k - 1) \div CALIBRATION_GRID_COLS
                c == (k - 1) % CALIBRATION_GRID_COLS
            IN [ x |-> mx + (c * (w - 2 * mx)) \div (CALIBRATION_GRID_COLS - 1),
                 y |-> my + (r * (h - 2 * my)) \div (CALIBRATION_GRID_ROWS - 1) ]],
         n)

\* removeOutliers(values, stdMultiplier), stdMultiplier in tenths
removeOutliers(values, stdMultiplier) ==
  IF Len(values) < 3 THEN values
  ELSE LET n == Len(values)
           mean == Sum(values) \div n
           std == Sqrt(Sum(Arr([i \in 1..n |->
                                  (values[i] - mean) * (values[i] - mean)], n))
                         \div n)
       IN IF std < STD_EPS THEN values
          ELSE SelectSeq(values,
                         LAMBDA v : 10 * Abs(v - mean) <= stdMultiplier * std)

\* The fields of GazeFeatures
FeatureNames == {"rx", "ry", "hx", "hy", "nx", "ny"}

\* src.map((f) => f[name]): one element per frame, <<v>> for the number v
\* and << >> for undefined, the value of a field the frame does not have.
column(src, name) ==
  Arr([i \in 1..Len(src) |->
         IF name \in DOMAIN src[i] THEN <<src[i][name]>> ELSE << >>],
      Len(src))

\* The column of the numbers vals, and the numbers of a column without an
\* undefined element.
columnOf(vals) == Arr([i \in 1..Len(vals) |-> <<vals[i]>>], Len(vals))

numbersOf(values) == Arr([i \in 1..Len(values) |-> values[i][1]], Len(values))

\* removeOutliers(values, stdMultiplier) on the elements of a column.  With
\* an undefined element among three or more, mean and std are NaN, std < 1e-9
\* is false and so is every comparison of the filter.
removeOutliersOfColumn(values, stdMultiplier) ==
  IF Len(values) < 3 THEN values
  ELSE IF \E i \in 1..Len(values) : values[i] = << >> THEN << >>
  ELSE columnOf(removeOutliers(numbersOf(values), stdMultiplier))

\* vals.reduce((a, b) => a + b, 0) / vals.length is NaN: 0 / 0, or a sum
\* with an undefined term.
meanIsNaN(vals) == vals = << >> \/ \E i \in 1..Len(vals) : vals[i] = << >>

\* vals.reduce((a, b) => a + b, 0) / vals.length
meanOfColumn(vals) ==
  IF meanIsNaN(vals) THEN NaN ELSE Sum(numbersOf(vals)) \div Len(vals)

\* cleanFrames: the frames the means are taken from
cleanSource(frames, settleFrames) ==
  LET settled == SubSeq(frames, settleFrames + 1, Len(frames))
  IN IF Len(settled) > 0 THEN settled ELSE frames

\* cleanFrames: rxVals, ryVals, hxVals, hyVals, nxVals and nyVals, by the
\* name of the feature
cleanKept(frames, settleFrames) ==
  [name \in FeatureNames |->
     removeOutliersOfColumn(column(cleanSource(frames, settleFrames), name),
                            CALIBRATION_OUTLIER_STD)]

\* GazeMapper.cleanFrames(frames, settleFrames).  The frames the screen
\* pushes carry rx, ry, hx and hy only: nx and ny of every frame are
\* undefined.
cleanFrames(frames, settleFrames) ==
  [name \in FeatureNames |->
     meanOfColumn(cleanKept(frames, settleFrames)[name])]

\* The component when it has mounted:
\*   points        the targets (useState(generatePoints))
\*   currentIndex  index of the target shown, from 0
\*   collecting    a stage is collecting frames
\*   frameBuffer   frameBufferRef.current
\*   samples       samplesRef.current
\*   done          doneRef.current
\*   completed     the arguments of the calls of onComplete, in order
NewScreen ==
  [ points |-> generatePoints, currentIndex |-> 0, collecting |-> FALSE,
    frameBuffer |-> << >>, samples |-> << >>, done |-> FALSE,
    completed |-> << >> ]

\* The collect effect without the check of trackerState.eyesClosed.
collectWithEyesClosed(s, ts) ==
  IF ~s.collecting \/ ~ts.faceDetected THEN s
  ELSE
    LET pushed == Append(s.frameBuffer,
                         [ rx |-> ts.features.rx, ry |-> ts.features.ry,
                           hx |-> ts.features.hx, hy |-> ts.features.hy ])
        cleaned == cleanFrames(pushed, CALIBRATION_SETTLE_FRAMES)
        sample == [ rx |-> cleaned.rx, ry |-> cleaned.ry,
                    hx |-> cleaned.hx, hy |-> cleaned.hy,
                    nx |-> cleaned.nx, ny |-> cleaned.ny,
                    screenX |-> s.points[s.currentIndex + 1].x,
                    screenY |-> s.points[s.currentIndex + 1].y ]
        samples == Append(s.samples, sample)
        nextIndex == s.currentIndex + 1
    IN IF Len(pushed) >= FRAMES_PER_POINT
       THEN IF nextIndex >= Len(s.points)
            THEN [s EXCEPT !.samples = samples, !.frameBuffer = << >>,
                           !.collecting = FALSE, !.done = TRUE,
                           !.completed = Append(@, samples)]
            ELSE [s EXCEPT !.samples = samples, !.frameBuffer = << >>,
                           !.collecting = FALSE, !.currentIndex = nextIndex]
       ELSE [s EXCEPT !.frameBuffer = pushed]

\* The collect effect, run after a render in which collecting or
\* trackerState has changed; ts is the trackerState of that render.
collect(s, ts) ==
  IF ~s.collecting \/ ~ts.faceDetected \/ ts.eyesClosed THEN s
  ELSE
    LET pushed == Append(s.frameBuffer,
                         [ rx |-> ts.features.rx, ry |-> ts.features.ry,
                           hx |-> ts.features.hx, hy |-> ts.features.hy ])
        cleaned == cleanFrames(pushed, CALIBRATION_SETTLE_FRAMES)
        sample == [ rx |-> cleaned.rx, ry |-> cleaned.ry,
                    hx |-> cleaned.hx, hy |-> cleaned.hy,
                    nx |-> cleaned.nx, ny |-> cleaned.ny,
                    screenX |-> s.points[s.currentIndex + 1].x,
                    screenY |-> s.points[s.currentIndex + 1].y ]
        samples == Append(s.samples, sample)
        nextIndex == s.currentIndex + 1
    IN IF Len(pushed) >= FRAMES_PER_POINT
       THEN IF nextIndex >= Len(s.points)
            THEN [s EXCEPT !.samples = samples, !.frameBuffer = << >>,
                           !.collecting = FALSE, !.done = TRUE,
                           !.completed = Append(@, samples)]
            ELSE [s EXCEPT !.samples = samples, !.frameBuffer = << >>,
                           !.collecting = FALSE, !.currentIndex = nextIndex]
       ELSE [s EXCEPT !.frameBuffer = pushed]

\* handleSpace that does not look at collecting: the press restarts the
\* stage.
handleSpaceWhileCollecting(s, ts) ==
  IF s.done THEN s
  ELSE collect([s EXCEPT !.frameBuffer = << >>, !.collecting = TRUE], ts)

\* handleSpace on a Space key, and the collect effect of the render that
\* follows setCollecting(true).
handleSpace(s, ts) ==
  IF s.collecting \/ s.done THEN s
  ELSE collect([s EXCEPT !.frameBuffer = << >>, !.collecting = TRUE], ts)

\* A Space key press while the calibration screen is shown.
SpaceKey ==
  /\ life.running
  /\ CalibrationShown
  /\ screen' = handleSpace(screen, state)
  /\ frame' = [NoFrame EXCEPT !.op = "space"]
  /\ UNCHANGED <<clock, blink, gaze, lastGaze, recoveryCount, eyeClosedStart,
                 eyeCloseSelectFired, state, life, app, board, hist>>

(***************************************************************************)
(* CommBoard, the version with hover hysteresis and the selection freeze.  *)
(* Its times are in milliseconds.  The buttons of a screen fill the window *)
(* in a grid of two rows, in reading order.  A null index or category is   *)
(* None, the empty message is NULL and a label is the pair of its category *)
(* and button index.                                                       *)
(***************************************************************************)
TICK_MS == 250                    \* one tick of the clock
SELECTION_COOLDOWN_SEC == 6       \* 1.5 s
HIT_TEST_PADDING_PX == 20
HYSTERESIS_EXTRA_PX == 30
SELECT_FREEZE_MS == 800
SELECTED_FLASH_MS == 800          \* setTimeout(() => setSelectedIndex(null), 800)

\* BOARD_CATEGORIES: the number of items of each category
BOARD_CATEGORIES == <<7, 7, 6, 7>>

\* The buttons rendered for a category: the categories on the main screen,
\* "back" and the items on a category's screen.
buttonCount(category) ==
  IF category = None THEN Len(BOARD_CATEGORIES)
  ELSE BOARD_CATEGORIES[category + 1] + 1

\* gridTemplateColumns of the screen
gridCols(category) ==
  IF category = None THEN 2 ELSE (buttonCount(category) + 1) \div 2

\* buttonRefs.current[i].getBoundingClientRect()
getBoundingClientRect(category, i) ==
  LET cols == gridCols(category)
      r == i \div cols
      c == i % cols
  IN [ left |-> (c * innerWidth) \div cols,
       right |-> ((c + 1) * innerWidth) \div cols,
       top |-> (r * innerHeight) \div 2,
       bottom |-> ((r + 1) * innerHeight) \div 2 ]

inZone(rect, gazeX, gazeY, pad) ==
  /\ gazeX >= rect.left - pad
  /\ gazeX <= rect.right + pad
  /\ gazeY >= rect.top - pad
  /\ gazeY <= rect.bottom + pad

\* The updater the hit-test effect passes to setHoveredIndex.
hitTest(prev, category, gazeX, gazeY) ==
  LET enterPad == HIT_TEST_PADDING_PX
      exitPad == HIT_TEST_PADDING_PX + HYSTERESIS_EXTRA_PX
      entered == { i \in 0..(buttonCount(category) - 1) :
                     inZone(getBoundingClientRect(category, i),
                            gazeX, gazeY, enterPad) }
  IN IF /\ prev # None
        /\ prev < buttonCount(category)
        /\ inZone(getBoundingClientRect(category, prev),
                  gazeX, gazeY, exitPad)
     THEN prev
     ELSE IF entered = {} THEN None
     ELSE CHOOSE i \in entered : \A j \in entered : i <= j

\* The component when it has mounted:
\*   hoveredIndex, selectedIndex, lastMessage, currentCategory   its state
\*   lastSelection       lastSelectionRef.current
\*   selectFreezeUntil   selectFreezeUntilRef.current
\*   timers              the times at which the pending setTimeout
\*                       callbacks of triggerSelect are due
\*   calls               the calls of triggerSelect made by the last
\*                       operation, with the component before and after
\*                       each (observation only)
NewBoard ==
  [ hoveredIndex |-> None, selectedIndex |-> None, lastMessage |-> NULL,
    currentCategory |-> None, lastSelection |-> 0, selectFreezeUntil |-> 0,
    timers |-> << >>, calls |-> << >> ]

\* The component without the observation.
boardState(b) ==
  [ hoveredIndex |-> b.hoveredIndex, selectedIndex |-> b.selectedIndex,
    lastMessage |-> b.lastMessage, currentCategory |-> b.currentCategory,
    lastSelection |-> b.lastSelection,
    selectFreezeUntil |-> b.selectFreezeUntil, timers |-> b.timers ]

logCall(b, index, now, after) ==
  [after EXCEPT !.calls = Append(b.calls,
     [ index |-> index, now |-> now, before |-> boardState(b),
       after |-> boardState(after) ])]

\* triggerSelect whose rejected calls restart the cooldown.
triggerSelectRestartsCooldown(b, index, now) ==
  IF now - b.lastSelection < SELECTION_COOLDOWN_SEC * TICK_MS
  THEN logCall(b, index, now, [b EXCEPT !.lastSelection = now])
  ELSE
    LET b1 == [b EXCEPT !.lastSelection = now,
                        !.selectFreezeUntil = now + SELECT_FREEZE_MS]
    IN logCall(b, index, now,
         IF b.currentCategory = None
         THEN [b1 EXCEPT !.currentCategory = index, !.hoveredIndex = None,
                         !.selectedIndex = None]
         ELSE IF index = 0
         THEN [b1 EXCEPT !.currentCategory = None, !.hoveredIndex = None,
                         !.selectedIndex = None]
         ELSE [b1 EXCEPT !.selectedIndex = index,
                         !.lastMessage = <<b.currentCategory, index>>,
                         !.timers = Append(@, now + SELECTED_FLASH_MS)])

\* triggerSelect(index) called at time now
triggerSelect(b, index, now) ==
  IF now - b.lastSelection < SELECTION_COOLDOWN_SEC * TICK_MS
  THEN logCall(b, index, now, b)
  ELSE
    LET b1 == [b EXCEPT !.lastSelection = now,
                        !.selectFreezeUntil = now + SELECT_FREEZE_MS]
    IN logCall(b, index, now,
         IF b.currentCategory = None
         THEN [b1 EXCEPT !.currentCategory = index, !.hoveredIndex = None,
                         !.selectedIndex = None]
         ELSE IF index = 0
         THEN [b1 EXCEPT !.currentCategory = None, !.hoveredIndex = None,
                         !.selectedIndex = None]
         ELSE [b1 EXCEPT !.selectedIndex = index,
                         !.lastMessage = <<b.currentCategory, index>>,
                         !.timers = Append(@, now + SELECTED_FLASH_MS)])

\* The hit-test effect, run after a render in which trackerState has
\* changed: the hoveredIndex of the next render.
hitTestEffect(b, ts, now) ==
  IF now < b.selectFreezeUntil THEN b.hoveredIndex
  ELSE IF ~ts.gazeValid THEN None
  ELSE hitTest(b.hoveredIndex, b.currentCategory, ts.gazeX, ts.gazeY)

\* The eye-close effect, run after a render in which
\* trackerState.eyeCloseSelect, hoveredIndex or triggerSelect has changed.
eyeCloseEffect(b, ts, now) ==
  IF ts.eyeCloseSelect /\ b.hoveredIndex # None
  THEN triggerSelect(b, b.hoveredIndex, now)
  ELSE b

\* The renders that follow a render whose effects have changed the
\* component from prev to cur: the eye-close effect runs again as long as
\* hoveredIndex or currentCategory (and with it triggerSelect) changes.
RECURSIVE eyeCloseRenders(_, _, _, _)
eyeCloseRenders(prev, cur, ts, now) ==
  IF /\ cur.hoveredIndex = prev.hoveredIndex
     /\ cur.currentCategory = prev.currentCategory
  THEN cur
  ELSE eyeCloseRenders(cur, eyeCloseEffect(cur, ts, now), ts, now)

\* The render with a new trackerState ts (the one before was prevTs) and the
\* renders it causes.  The hit-test effect queues its update of hoveredIndex
\* before the eye-close effect of the same render calls triggerSelect.
boardRender(b, prevTs, ts, now) ==
  LET b0 == [b EXCEPT !.calls = << >>]
      hovered == hitTestEffect(b0, ts, now)
      selected == IF ts.eyeCloseSelect # prevTs.eyeCloseSelect
                  THEN eyeCloseEffect(b0, ts, now) ELSE b0
      cur == IF selected.currentCategory # b0.currentCategory
             THEN selected
             ELSE [selected EXCEPT !.hoveredIndex = hovered]
  IN eyeCloseRenders(b0, cur, ts, now)

\* The first render of the component and the renders it causes: every effect
\* runs, the eye-close effect on a hoveredIndex of null.
boardMount(ts, now) ==
  LET cur == [NewBoard EXCEPT !.hoveredIndex = hitTestEffect(NewBoard, ts, now)]
  IN eyeCloseRenders(NewBoard, cur, ts, now)

(***************************************************************************)
(* useTracker: the effect                                                  *)
(***************************************************************************)
\* The effect when it has just called init():
\*   pc          the await init() is suspended at, or "done"
\*   cancelled   the effect's cancelled flag
\*   running     runningRef.current
\*   scheduled   a requestAnimationFrame(processFrame) callback is pending
\*   pending     the number of such callbacks
\*   stream      the camera stream: "none", "live" or "stopped"
\*   srcObject   video.srcObject holds the stream
\*   landmarker  EyeTracker.landmarker: "none", "open" or "closed"
\*   cleaned     the effect's cleanup has run
\*   isLoading, error   the snapshot fields init() sets
Mounted ==
  [ pc |-> "getUserMedia", cancelled |-> FALSE, running |-> FALSE,
    scheduled |-> FALSE, pending |-> 0, stream |-> "none",
    srcObject |-> FALSE,
    landmarker |-> "none", cleaned |-> FALSE,
    isLoading |-> TRUE, error |-> FALSE ]

\* The effect when init() has returned after starting the frame loop.
Started ==
  [ Mounted EXCEPT !.pc = "done", !.running = TRUE, !.scheduled = TRUE,
                   !.pending = 1,
                   !.stream = "live", !.srcObject = TRUE,
                   !.landmarker = "open", !.isLoading = FALSE ]

\* The tracker right after the first render.
InitMount ==
  /\ clock = 0
  /\ blink = NewBlinkDetector
  /\ gaze = NewGazeMapper
  /\ lastGaze = [x |-> 0, y |-> 0]
  /\ recoveryCount = 0
  /\ eyeClosedStart = 0
  /\ eyeCloseSelectFired = FALSE
  /\ state = INITIAL_STATE
  /\ life = Mounted
  /\ screen = NewScreen
  /\ app = NewApp
  /\ board = NewBoard
  /\ frame = NoFrame
  /\ hist = NoHistory

\* The tracker when init() has started the frame loop and no frame has been
\* processed yet.
Init ==
  /\ clock = 0
  /\ blink = NewBlinkDetector
  /\ gaze = NewGazeMapper
  /\ lastGaze = [x |-> 0, y |-> 0]
  /\ recoveryCount = 0
  /\ eyeClosedStart = 0
  /\ eyeCloseSelectFired = FALSE
  /\ state = INITIAL_STATE
  /\ life = Started
  /\ screen = NewScreen
  /\ app = [NewApp EXCEPT !.screen = "calibrating"]
  /\ board = NewBoard
  /\ frame = NoFrame
  /\ hist = NoHistory

\* init(): getUserMedia has resolved; the code up to the await on
\* video.play().
GetUserMediaResolves ==
  /\ life.pc = "getUserMedia"
  /\ life' = IF life.cancelled
             THEN [life EXCEPT !.stream = "stopped", !.pc = "done"]
             ELSE [life EXCEPT !.stream = "live", !.srcObject = TRUE,
                               !.pc = "play"]
  /\ frame' = [NoFrame EXCEPT !.op = "init"]
  /\ UNCHANGED <<clock, blink, gaze, lastGaze, recoveryCount, eyeClosedStart,
                 eyeCloseSelectFired, state, screen, board, hist>>
  /\ app' = appRender(app, life')

\* init(): video.play() has resolved; eyeTracker.init() runs up to its first
\* await (FilesetResolver.forVisionTasks).
PlayResolves ==
  /\ life.pc = "play"
  /\ life' = [life EXCEPT !.pc = "forVisionTasks"]
  /\ frame' = [NoFrame EXCEPT !.op = "init"]
  /\ UNCHANGED <<clock, blink, gaze, lastGaze, recoveryCount, eyeClosedStart,
                 eyeCloseSelectFired, state, screen, board, hist>>
  /\ app' = appRender(app, life')

\* EyeTracker.init(): the fileset has resolved; up to the await on
\* FaceLandmarker.createFromOptions.
FilesetResolves ==
  /\ life.pc = "forVisionTasks"
  /\ life' = [life EXCEPT !.pc = "createFromOptions"]
  /\ frame' = [NoFrame EXCEPT !.op = "init"]
  /\ UNCHANGED <<clock, blink, gaze, lastGaze, recoveryCount, eyeClosedStart,
                 eyeCloseSelectFired, state, screen, board, hist>>
  /\ app' = appRender(app, life')

\* init() that starts the frame loop without looking at cancelled.
LandmarkerResolvesUnchecked ==
  /\ life.pc = "createFromOptions"
  /\ life' = [life EXCEPT !.landmarker = "open", !.pc = "done",
                          !.isLoading = FALSE, !.running = TRUE,
                          !.scheduled = TRUE, !.pending = @ + 1]
  /\ frame' = [NoFrame EXCEPT !.op = "init"]
  /\ UNCHANGED <<clock, blink, gaze, lastGaze, recoveryCount, eyeClosedStart,
                 eyeCloseSelectFired, state, screen, board, hist>>
  /\ app' = appRender(app, life')

\* EyeTracker.init() stores the landmarker and returns; init() checks
\* cancelled and otherwise starts the frame loop.
LandmarkerResolves ==
  /\ life.pc = "createFromOptions"
  /\ life' = IF life.cancelled
             THEN [life EXCEPT !.landmarker = "open", !.pc = "done"]
             ELSE [life EXCEPT !.landmarker = "open", !.pc = "done",
                               !.isLoading = FALSE, !.running = TRUE,
                               !.scheduled = TRUE, !.pending = @ + 1]
  /\ frame' = [NoFrame EXCEPT !.op = "init"]
  /\ UNCHANGED <<clock, blink, gaze, lastGaze, recoveryCount, eyeClosedStart,
                 eyeCloseSelectFired, state, screen, board, hist>>
  /\ app' = appRender(app, life')

\* init(): the promise awaited has rejected; the catch block.
InitRejects ==
  /\ life.pc # "done"
  /\ life' = IF life.cancelled THEN [life EXCEPT !.pc = "done"]
             ELSE [life EXCEPT !.pc = "done", !.isLoading = FALSE,
                               !.error = TRUE]
  /\ frame' = [NoFrame EXCEPT !.op = "init"]
  /\ UNCHANGED <<clock, blink, gaze, lastGaze, recoveryCount, eyeClosedStart,
                 eyeCloseSelectFired, state, screen, board, hist>>
  /\ app' = appRender(app, life')

\* The effect's cleanup, with the video element still referenced.
Cleanup ==
  /\ ~life.cleaned
  /\ life' = [life EXCEPT
                !.cancelled = TRUE,
                !.running = FALSE,
                !.landmarker = IF @ = "open" THEN "closed" ELSE @,
                !.stream = IF life.srcObject THEN "stopped" ELSE @,
                !.cleaned = TRUE]
  /\ frame' = [NoFrame EXCEPT !.op = "cleanup"]
  /\ UNCHANGED <<clock, blink, gaze, lastGaze, recoveryCount, eyeClosedStart,
                 eyeCloseSelectFired, state, screen, board, hist>>
  /\ app' = appRender(app, life')

\* processFrame whose branch for a frame without a face returns early.
processFrameStallsWithoutFace(path) ==
  IF path \in {"stopped", "noface"} THEN 0 ELSE 1

\* The requestAnimationFrame(processFrame) calls of one run of processFrame
\* on the path taken: "stopped" returns at the running check, "notready"
\* at the video check, "face" and "noface" run to the end.
processFrameSchedules(path) == IF path = "stopped" THEN 0 ELSE 1

\* The callbacks pending after a run of processFrame: the one that ran is
\* gone, the ones it has requested are added.
rescheduled(l, path) ==
  LET pending == l.pending - 1 + processFrameSchedules(path)
  IN [l EXCEPT !.pending = pending, !.scheduled = pending > 0]

\* One run of processFrame while running with no video element or a video
\* that has no current frame: nothing is read, not even the time.
VideoNotReadyFrame ==
  /\ life.scheduled
  /\ life.running
  /\ life' = rescheduled(life, "notready")
  /\ frame' = [NoFrame EXCEPT !.op = "notready"]
  /\ UNCHANGED <<clock, blink, gaze, lastGaze, recoveryCount, eyeClosedStart,
                 eyeCloseSelectFired, state, screen, app, board, hist>>

\* processFrame called back when runningRef.current is false: it returns at
\* its first check and schedules nothing.
StoppedFrame ==
  /\ life.scheduled
  /\ ~life.running
  /\ life' = rescheduled(life, "stopped")
  /\ frame' = [NoFrame EXCEPT !.op = "stopped"]
  /\ UNCHANGED <<clock, blink, gaze, lastGaze, recoveryCount, eyeClosedStart,
                 eyeCloseSelectFired, state, screen, board, hist>>
  /\ app' = appRender(app, life')

\* The operation has made a call of triggerSelect that passed the cooldown
\* check.
AcceptedNow == board'.lastSelection # board.lastSelection

\* closure without the fired flag: fires on every frame past the threshold.
closureFiresAgain(eyesClosed, now, start, fired) ==
  IF eyesClosed
  THEN LET start1 == IF start = 0 THEN now ELSE start
           eyeClosedSec == now - start1
           eyeCloseSelect == eyeClosedSec >= EYE_CLOSE_SELECT_SEC
       IN [ start |-> start1, fired |-> fired \/ eyeCloseSelect,
            eyeClosedSec |-> eyeClosedSec, eyeCloseSelect |-> eyeCloseSelect ]
  ELSE [ start |-> 0, fired |-> fired,
         eyeClosedSec |-> 0, eyeCloseSelect |-> FALSE ]

\* closure that keeps eyeClosedStartRef when the eyes are open.
closureKeepsStart(eyesClosed, now, start, fired) ==
  IF eyesClosed
  THEN LET start1 == IF start = 0 THEN now ELSE start
           fired1 == IF start = 0 THEN FALSE ELSE fired
           eyeClosedSec == now - start1
           eyeCloseSelect == eyeClosedSec >= EYE_CLOSE_SELECT_SEC /\ ~fired1
       IN [ start |-> start1, fired |-> fired1 \/ eyeCloseSelect,
            eyeClosedSec |-> eyeClosedSec, eyeCloseSelect |-> eyeCloseSelect ]
  ELSE [ start |-> start, fired |-> fired,
         eyeClosedSec |-> 0, eyeCloseSelect |-> FALSE ]

\* processFrame, closure duration: the two refs afterwards and the values
\* computed for the snapshot.
closure(eyesClosed, now, start, fired) ==
  IF eyesClosed
  THEN LET start1 == IF start = 0 THEN now ELSE start
           fired1 == IF start = 0 THEN FALSE ELSE fired
           eyeClosedSec == now - start1
           eyeCloseSelect == eyeClosedSec >= EYE_CLOSE_SELECT_SEC /\ ~fired1
       IN [ start |-> start1, fired |-> fired1 \/ eyeCloseSelect,
            eyeClosedSec |-> eyeClosedSec, eyeCloseSelect |-> eyeCloseSelect ]
  ELSE [ start |-> 0, fired |-> fired,
         eyeClosedSec |-> 0, eyeCloseSelect |-> FALSE ]

\* freezeGate that counts the closing frame as the first recovery frame.
freezeGateOneShort(eyesClosed, recovery) ==
  IF ~eyesClosed /\ recovery > 0
  THEN [shouldFreeze |-> TRUE, recovery |-> recovery - 1]
  ELSE IF eyesClosed
  THEN [shouldFreeze |-> TRUE, recovery |-> GAZE_RECOVERY_FRAMES - 1]
  ELSE [shouldFreeze |-> FALSE, recovery |-> recovery]

\* freezeGate that freezes during the recovery only, not while the eyes are
\* closed.
freezeGateRecoveryOnly(eyesClosed, recovery) ==
  IF ~eyesClosed /\ recovery > 0
  THEN [shouldFreeze |-> TRUE, recovery |-> recovery - 1]
  ELSE IF eyesClosed
  THEN [shouldFreeze |-> FALSE, recovery |-> GAZE_RECOVERY_FRAMES]
  ELSE [shouldFreeze |-> FALSE, recovery |-> recovery]

\* freezeGate that lets a recovery in progress run on when the eyes close
\* again.
freezeGateKeepsCountdown(eyesClosed, recovery) ==
  IF ~eyesClosed /\ recovery > 0
  THEN [shouldFreeze |-> TRUE, recovery |-> recovery - 1]
  ELSE IF eyesClosed
  THEN [shouldFreeze |-> TRUE,
        recovery |-> IF recovery > 0 THEN recovery
                     ELSE GAZE_RECOVERY_FRAMES]
  ELSE [shouldFreeze |-> FALSE, recovery |-> recovery]

\* processFrame, gaze update decision: shouldFreeze and the recovery counter.
freezeGate(eyesClosed, recovery) ==
  IF ~eyesClosed /\ recovery > 0
  THEN [shouldFreeze |-> TRUE, recovery |-> recovery - 1]
  ELSE IF eyesClosed
  THEN [shouldFreeze |-> TRUE, recovery |-> GAZE_RECOVERY_FRAMES]
  ELSE [shouldFreeze |-> FALSE, recovery |-> recovery]

\* processFrame that publishes new feature values only on the frames on
\* which the gaze point may move.
FaceFrameFreezesFeatures(dt, e, landmarks) ==
  \E extracted \in {extractFeatures(gaze, landmarks)} :
    LET now == clock + dt
        blink1 == update(blink, e, now)
        eyesClosed == blink1.ear < GAZE_FREEZE_EAR
        cl == closure(eyesClosed, now, eyeClosedStart, eyeCloseSelectFired)
        gate == freezeGate(eyesClosed, recoveryCount)
        f == IF gate.shouldFreeze THEN state.features
             ELSE extracted.features
        runPredict == ~gate.shouldFreeze /\ isCalibrated(extracted.g)
        predicted == predict(extracted.g, f)
        gazeX == IF runPredict THEN predicted.x ELSE lastGaze.x
        gazeY == IF runPredict THEN predicted.y ELSE lastGaze.y
        registered == blink1.blinkCount # blink.blinkCount
        blinksSince == hist.blinksSince + (IF registered THEN 1 ELSE 0)
    IN /\ life.scheduled
       /\ life.running
       /\ life' = rescheduled(life, "face")
       /\ app' = app
       /\ clock' = now
       /\ blink' = blink1
       /\ eyeClosedStart' = cl.start
       /\ eyeCloseSelectFired' = cl.fired
       /\ recoveryCount' = gate.recovery
       /\ gaze' = IF runPredict THEN predicted.g ELSE extracted.g
       /\ lastGaze' = IF runPredict THEN [x |-> gazeX, y |-> gazeY] ELSE lastGaze
       /\ state' = [ faceDetected |-> TRUE, ear |-> blink1.ear,
                     blinkCount |-> blink1.blinkCount,
                     doubleBlink |-> blink1.doubleBlink, features |-> f,
                     gazeX |-> gazeX, gazeY |-> gazeY,
                     gazeValid |-> IF runPredict THEN TRUE
                                   ELSE isCalibrated(extracted.g),
                     eyesClosed |-> eyesClosed,
                     eyeClosedSec |-> cl.eyeClosedSec,
                     eyeCloseSelect |-> cl.eyeCloseSelect ]
       /\ screen' = IF CalibrationShown THEN collect(screen, state')
                    ELSE screen
       /\ board' = IF BoardShown
                   THEN boardRender(board, state, state', now * TICK_MS)
                   ELSE board
       /\ frame' = [NoFrame EXCEPT
                      !.op = "frame", !.face = TRUE,
                      !.accepted = AcceptedNow,
                      !.sinceAccept = IF hist.lastAccept = None THEN None
                                      ELSE now - hist.lastAccept,
                      !.frozen = gate.shouldFreeze, !.predicted = runPredict,
                      !.resumed = runPredict /\ hist.frozenLast,
                      !.registered = registered,
                      !.select = cl.eyeCloseSelect,
                      !.sinceDouble = blinksSince,
                      !.run = hist.blinkRun,
                      !.landmarks = landmarks,
                      !.moved = /\ runPredict
                                /\ <<predicted.g.outputX, predicted.g.outputY>>
                                     # <<gaze.outputX, gaze.outputY>>]
       /\ hist' = [hist EXCEPT
            !.runStart = IF ~eyesClosed THEN None
                         ELSE IF @ = None THEN now ELSE @,
            !.runLast = IF eyesClosed THEN now ELSE None,
            !.runPrev = IF eyesClosed THEN hist.runLast ELSE None,
            !.openRun = IF eyesClosed THEN 0
                        ELSE IF @ = None THEN None
                        ELSE Min(@ + 1, GAZE_RECOVERY_FRAMES + 2),
            !.frozenLast = gate.shouldFreeze,
            !.lastAccept = IF AcceptedNow THEN now ELSE @,
            !.closureAccepts =
               (IF ~eyesClosed \/ eyeClosedStart = 0 THEN 0 ELSE @)
                 + (IF AcceptedNow THEN 1 ELSE 0),
            !.gazeAtClosure = IF ~eyesClosed THEN NULL
                              ELSE IF eyeClosedStart = 0
                              THEN <<state.gazeX, state.gazeY>> ELSE @,
            !.blinkRun = IF e < EAR_THRESHOLD THEN @ + 1 ELSE 0,
            !.blinksSince = IF blink1.doubleBlink THEN 0 ELSE blinksSince,
            !.predicts = IF runPredict THEN @ + 1 ELSE @,
            !.smoothed = IF runPredict
                         THEN Append(@, <<predicted.g.smoothX,
                                          predicted.g.smoothY>>)
                         ELSE @,
            !.lastDouble = IF blink1.doubleBlink THEN now ELSE @]

\* One run of processFrame while running, dt ticks after the last clock
\* reading, on a frame in which the landmarker found a face with EAR e and
\* the landmarks given.
FaceFrame(dt, e, landmarks) ==
  \E extracted \in {extractFeatures(gaze, landmarks)} :
    LET now == clock + dt
        blink1 == update(blink, e, now)
        eyesClosed == blink1.ear < GAZE_FREEZE_EAR
        cl == closure(eyesClosed, now, eyeClosedStart, eyeCloseSelectFired)
        gate == freezeGate(eyesClosed, recoveryCount)
        f == extracted.features
        runPredict == ~gate.shouldFreeze /\ isCalibrated(extracted.g)
        predicted == predict(extracted.g, f)
        gazeX == IF runPredict THEN predicted.x ELSE lastGaze.x
        gazeY == IF runPredict THEN predicted.y ELSE lastGaze.y
        registered == blink1.blinkCount # blink.blinkCount
        blinksSince == hist.blinksSince + (IF registered THEN 1 ELSE 0)
    IN /\ life.scheduled
       /\ life.running
       /\ life' = rescheduled(life, "face")
       /\ app' = app
       /\ clock' = now
       /\ blink' = blink1
       /\ eyeClosedStart' = cl.start
       /\ eyeCloseSelectFired' = cl.fired
       /\ recoveryCount' = gate.recovery
       /\ gaze' = IF runPredict THEN predicted.g ELSE extracted.g
       /\ lastGaze' = IF runPredict THEN [x |-> gazeX, y |-> gazeY] ELSE lastGaze
       /\ state' = [ faceDetected |-> TRUE, ear |-> blink1.ear,
                     blinkCount |-> blink1.blinkCount,
                     doubleBlink |-> blink1.doubleBlink, features |-> f,
                     gazeX |-> gazeX, gazeY |-> gazeY,
                     gazeValid |-> IF runPredict THEN TRUE
                                   ELSE isCalibrated(extracted.g),
                     eyesClosed |-> eyesClosed,
                     eyeClosedSec |-> cl.eyeClosedSec,
                     eyeCloseSelect |-> cl.eyeCloseSelect ]
       /\ screen' = IF CalibrationShown THEN collect(screen, state')
                    ELSE screen
       /\ board' = IF BoardShown
                   THEN boardRender(board, state, state', now * TICK_MS)
                   ELSE board
       /\ frame' = [NoFrame EXCEPT
                      !.op = "frame", !.face = TRUE,
                      !.accepted = AcceptedNow,
                      !.sinceAccept = IF hist.lastAccept = None THEN None
                                      ELSE now - hist.lastAccept,
                      !.frozen = gate.shouldFreeze, !.predicted = runPredict,
                      !.resumed = runPredict /\ hist.frozenLast,
                      !.registered = registered,
                      !.select = cl.eyeCloseSelect,
                      !.sinceDouble = blinksSince,
                      !.run = hist.blinkRun,
                      !.landmarks = landmarks,
                      !.moved = /\ runPredict
                                /\ <<predicted.g.outputX, predicted.g.outputY>>
                                     # <<gaze.outputX, gaze.outputY>>]
       /\ hist' = [hist EXCEPT
            !.runStart = IF ~eyesClosed THEN None
                         ELSE IF @ = None THEN now ELSE @,
            !.runLast = IF eyesClosed THEN now ELSE None,
            !.runPrev = IF eyesClosed THEN hist.runLast ELSE None,
            !.openRun = IF eyesClosed THEN 0
                        ELSE IF @ = None THEN None
                        ELSE Min(@ + 1, GAZE_RECOVERY_FRAMES + 2),
            !.frozenLast = gate.shouldFreeze,
            !.lastAccept = IF AcceptedNow THEN now ELSE @,
            !.closureAccepts =
               (IF ~eyesClosed \/ eyeClosedStart = 0 THEN 0 ELSE @)
                 + (IF AcceptedNow THEN 1 ELSE 0),
            !.gazeAtClosure = IF ~eyesClosed THEN NULL
                              ELSE IF eyeClosedStart = 0
                              THEN <<state.gazeX, state.gazeY>> ELSE @,
            !.blinkRun = IF e < EAR_THRESHOLD THEN @ + 1 ELSE 0,
            !.blinksSince = IF blink1.doubleBlink THEN 0 ELSE blinksSince,
            !.predicts = IF runPredict THEN @ + 1 ELSE @,
            !.smoothed = IF runPredict
                         THEN Append(@, <<predicted.g.smoothX,
                                          predicted.g.smoothY>>)
                         ELSE @,
            !.lastDouble = IF blink1.doubleBlink THEN now ELSE @]

\* A frame without a face handled as a frame with open eyes.
NoFaceFrameOpensEyes(dt) ==
  /\ life.scheduled
  /\ life.running
  /\ clock' = clock + dt
  /\ state' = [state EXCEPT !.faceDetected = FALSE]
  /\ screen' = IF CalibrationShown THEN collect(screen, state') ELSE screen
  /\ board' = IF BoardShown
              THEN boardRender(board, state, state', (clock + dt) * TICK_MS)
              ELSE board
  /\ frame' = [NoFrame EXCEPT
                 !.op = "frame", !.accepted = AcceptedNow,
                 !.sinceAccept = IF hist.lastAccept = None THEN None
                                 ELSE clock + dt - hist.lastAccept]
  /\ hist' = [hist EXCEPT
                !.lastAccept = IF AcceptedNow THEN clock + dt ELSE @,
                !.closureAccepts = @ + (IF AcceptedNow THEN 1 ELSE 0)]
  /\ eyeClosedStart' = 0
  /\ life' = rescheduled(life, "noface")
  /\ UNCHANGED <<blink, gaze, lastGaze, recoveryCount,
                 eyeCloseSelectFired, app>>

\* One run of processFrame while running on a frame without a face.
NoFaceFrame(dt) ==
  /\ life.scheduled
  /\ life.running
  /\ clock' = clock + dt
  /\ state' = [state EXCEPT !.faceDetected = FALSE]
  /\ screen' = IF CalibrationShown THEN collect(screen, state') ELSE screen
  /\ board' = IF BoardShown
              THEN boardRender(board, state, state', (clock + dt) * TICK_MS)
              ELSE board
  /\ frame' = [NoFrame EXCEPT
                 !.op = "frame", !.accepted = AcceptedNow,
                 !.sinceAccept = IF hist.lastAccept = None THEN None
                                 ELSE clock + dt - hist.lastAccept]
  /\ hist' = [hist EXCEPT
                !.lastAccept = IF AcceptedNow THEN clock + dt ELSE @,
                !.closureAccepts = @ + (IF AcceptedNow THEN 1 ELSE 0)]
  /\ life' = rescheduled(life, "noface")
  /\ UNCHANGED <<blink, gaze, lastGaze, recoveryCount, eyeClosedStart,
                 eyeCloseSelectFired, app>>

\* useTracker's calibrate callback
Calibrate(samples) ==
  \E r \in {calibrate(gaze, samples)} :
     /\ gaze' = r.g
     /\ frame' = [NoFrame EXCEPT !.op = "calibrate", !.ok = r.ok,
                                 !.n = Len(samples),
                                 !.repeat = r.ok /\ hist.fittedOn = samples]
     /\ hist' = [hist EXCEPT !.calls = @ + 1,
                             !.fits = IF r.ok THEN @ + 1 ELSE @,
                             !.fittedOn = IF r.ok THEN samples ELSE @,
                             !.predicts = IF r.ok THEN 0 ELSE @,
                             !.smoothed = IF r.ok THEN << >> ELSE @,
                             !.stale = @ \/ (r.ok /\ hist.predicts > 0),
                             !.recalibrating = @ /\ ~r.ok]
     /\ UNCHANGED <<clock, blink, lastGaze, recoveryCount, eyeClosedStart,
                    eyeCloseSelectFired, state, life, screen, app, board>>

\* useTracker's resetCalibration callback
ResetCalibration ==
  /\ gaze' = reset(gaze)
  /\ frame' = [NoFrame EXCEPT !.op = "reset"]
  /\ hist' = [hist EXCEPT !.calls = @ + 1, !.fittedOn = NULL,
                          !.predicts = 0, !.smoothed = << >>,
                          !.stale = @ \/ hist.predicts > 0]
  /\ UNCHANGED <<clock, blink, lastGaze, recoveryCount, eyeClosedStart,
                 eyeCloseSelectFired, state, life, screen, app, board>>

\* App's handleCalibrationComplete, called by the calibration screen with
\* the samples of a finished session: CommBoard mounts whether calibrate
\* succeeds or not.
CalibrationComplete(samples) ==
  \E r \in {calibrate(gaze, samples)} :
     /\ CalibrationShown
     /\ gaze' = r.g
     /\ app' = [app EXCEPT !.screen = "communicating"]
     /\ board' = boardMount(state, clock * TICK_MS)
     /\ frame' = [NoFrame EXCEPT
                    !.op = "complete", !.ok = r.ok, !.n = Len(samples),
                    !.repeat = r.ok /\ hist.fittedOn = samples,
                    !.accepted = AcceptedNow,
                    !.sinceAccept = IF hist.lastAccept = None THEN None
                                    ELSE clock - hist.lastAccept]
     /\ hist' = [hist EXCEPT !.calls = @ + 1,
                             !.fits = IF r.ok THEN @ + 1 ELSE @,
                             !.fittedOn = IF r.ok THEN samples ELSE @,
                             !.predicts = IF r.ok THEN 0 ELSE @,
                             !.smoothed = IF r.ok THEN << >> ELSE @,
                             !.stale = @ \/ (r.ok /\ hist.predicts > 0),
                             !.recalibrating = @ /\ ~r.ok,
                             !.lastAccept = IF AcceptedNow THEN clock ELSE @,
                             !.closureAccepts =
                                @ + (IF AcceptedNow THEN 1 ELSE 0)]
     /\ UNCHANGED <<clock, blink, lastGaze, recoveryCount, eyeClosedStart,
                    eyeCloseSelectFired, state, life, screen>>

\* The screen the keydown handler reads: the handler is registered in the
\* first render of App and keeps the screen of that render.
keyDownScreen == NewApp.screen

\* handleRecalibrate that leaves the model to the next calibration.
handleRecalibrateKeepsModel(g) == g

\* App's handleRecalibrate: the mapper after resetCalibration()
handleRecalibrate(g) == reset(g)

\* The R key: handleRecalibrate, then the render that shows the calibration
\* screen in place of the board.
RecalibrateKey ==
  /\ keyDownScreen # "calibrating"
  /\ gaze' = handleRecalibrate(gaze)
  /\ app' = [app EXCEPT !.screen = "calibrating"]
  /\ board' = NewBoard
  /\ screen' = IF BoardShown THEN NewScreen ELSE screen
  /\ frame' = [NoFrame EXCEPT !.op = "recalibrate"]
  /\ hist' = [hist EXCEPT !.calls = @ + 1, !.fittedOn = NULL,
                          !.predicts = 0, !.smoothed = << >>,
                          !.stale = @ \/ hist.predicts > 0,
                          !.recalibrating = TRUE]
  /\ UNCHANGED <<clock, blink, lastGaze, recoveryCount, eyeClosedStart,
                 eyeCloseSelectFired, state, life>>

\* The callback of triggerSelect's setTimeout, at or after its time.
SelectedTimeout ==
  /\ BoardShown
  /\ board.timers # << >>
  /\ Head(board.timers) <= clock * TICK_MS
  /\ board' = [board EXCEPT !.selectedIndex = None, !.timers = Tail(@),
                            !.calls = << >>]
  /\ frame' = [NoFrame EXCEPT !.op = "timeout"]
  /\ UNCHANGED <<clock, blink, gaze, lastGaze, recoveryCount, eyeClosedStart,
                 eyeCloseSelectFired, state, life, screen, app, hist>>

(***************************************************************************)
(* Specifications.  The frame loop runs processFrame once per rendered     *)
(* frame; calibrate and resetCalibration are event handlers that run       *)
(* between two frames.                                                     *)
(***************************************************************************)
\* Gestures: frames at any spacing up to MaxDt with every EAR level, faces
\* coming and going, on an uncalibrated mapper.
GestureFeatures == CHOOSE f \in FeatureInputs : f.rx = 300

GestureLandmarks == LandmarksFor(GestureFeatures)

NextGesture ==
  \/ \E dt \in 1..MaxDt, e \in EarInputs :
       clock + dt <= MaxTime /\ FaceFrame(dt, e, GestureLandmarks)
  \/ \E dt \in 1..MaxDt : clock + dt <= MaxTime /\ NoFaceFrame(dt)

SpecGesture == Init /\ [][NextGesture]_vars

\* Gaze: one frame per tick, the eyes open or closed for the gaze gate, two
\* gaze directions, and one calibration or reset at any moment of the run.
GazeEars == {e \in EarInputs : e >= EAR_THRESHOLD}

NextGaze ==
  \/ \E e \in GazeEars, landmarks \in LandmarkInputs :
       clock < MaxFrames /\ FaceFrame(1, e, landmarks)
  \/ clock < MaxFrames /\ NoFaceFrame(1)
  \/ hist.calls = 0 /\ Calibrate(GridSamples)
  \/ hist.calls = 0 /\ ResetCalibration

SpecGaze == Init /\ [][NextGaze]_vars

\* Mapper: every sample list, resets, and a few frames with open eyes (which
\* call predict once a model is fitted), with closed eyes or without a face.
NextMapper ==
  \/ \E e \in GazeEars, landmarks \in MapperLandmarks :
       clock < MaxMapperFrames /\ FaceFrame(1, e, landmarks)
  \/ clock < MaxMapperFrames /\ NoFaceFrame(1)
  \/ \E samples \in SampleInputs :
       hist.calls < MaxMapperCalls /\ Calibrate(samples)
  \/ hist.calls < MaxMapperCalls /\ ResetCalibration

SpecMapper == Init /\ [][NextMapper]_vars

\* Lifecycle: the effect's init() from its first await on, the cleanup at any
\* moment, and the frames of the loop init() starts, with the video ready
\* or not.
NextLifecycle ==
  \/ GetUserMediaResolves
  \/ PlayResolves
  \/ FilesetResolves
  \/ LandmarkerResolves
  \/ InitRejects
  \/ Cleanup
  \/ \E e \in EarInputs :
       clock < MaxLifeFrames /\ FaceFrame(1, e, GestureLandmarks)
  \/ clock < MaxLifeFrames /\ NoFaceFrame(1)
  \/ VideoNotReadyFrame
  \/ StoppedFrame

SpecLifecycle == InitMount /\ [][NextLifecycle]_vars

\* Buffer: frames with open eyes on a fitted mapper, more of them than the
\* moving-average buffer holds, while the gaze sweeps once from the top-left
\* to the bottom-right target; calibrations and resets at any moment.
NextBuffer ==
  \/ \E f \in FeatureInputs :
       /\ clock < MaxBufferFrames
       /\ state.features.rx <= f.rx
       /\ FaceFrame(1, GAZE_FREEZE_EAR, LandmarksFor(f))
  \/ hist.calls < MaxBufferCalls /\ Calibrate(GridSamples)
  \/ hist.calls < MaxBufferCalls /\ ResetCalibration

SpecBuffer == Init /\ [][NextBuffer]_vars

\* Degenerate: frames whose landmarks are regular or degenerate, the EAR
\* computed from them, on a mapper that is fitted at some moment.
NextDegenerate ==
  \/ \E landmarks \in DegenerateLandmarks :
       /\ clock < MaxDegenerateFrames
       /\ FaceFrame(1, earOfLandmarks(landmarks), landmarks)
  \/ hist.calls = 0 /\ Calibrate(GridSamples)

SpecDegenerate == Init /\ [][NextDegenerate]_vars

\* Calibration: a session on the calibration screen.  Space is pressed at
\* any moment; up to the end of stage MaxLossyStages the eyes close, the face
\* is lost or a frame arrives between two stages, as long as fewer than
\* MaxLostFrames frames went uncollected.
FramesCollected ==
  FRAMES_PER_POINT * Len(screen.samples) + Len(screen.frameBuffer)

MayLoseFrame ==
  /\ screen.currentIndex < MaxLossyStages
  /\ clock - FramesCollected < MaxLostFrames

NextCalibration ==
  \/ /\ clock < MaxCalFrames
     /\ screen.collecting
     /\ FaceFrame(1, GAZE_FREEZE_EAR, GestureLandmarks)
  \/ \E e \in GazeEars :
       /\ clock < MaxCalFrames
       /\ MayLoseFrame
       /\ e < GAZE_FREEZE_EAR \/ ~screen.collecting
       /\ FaceFrame(1, e, GestureLandmarks)
  \/ /\ clock < MaxCalFrames
     /\ MayLoseFrame
     /\ NoFaceFrame(1)
  \/ SpaceKey

SpecCalibration == Init /\ [][NextCalibration]_vars

\* Board: the session has completed on the ten-target grid and the board is
\* shown; frames at any spacing up to MaxDt with the eyes open or closed for
\* the gaze gate, the gaze on the bottom-right button, faces coming and
\* going.
BoardLandmarks == LandmarksFor(CHOOSE f \in FeatureInputs : f.rx = 700)

NextBoard ==
  \/ hist.calls = 0 /\ CalibrationComplete(GridSamples)
  \/ \E dt \in 1..MaxDt, e \in GazeEars :
       /\ BoardShown
       /\ clock + dt <= MaxBoardTime
       /\ FaceFrame(dt, e, BoardLandmarks)
  \/ \E dt \in 1..MaxDt :
       /\ BoardShown
       /\ clock + dt <= MaxBoardTime
       /\ NoFaceFrame(dt)
  \/ SelectedTimeout

SpecBoard == Init /\ [][NextBoard]_vars

\* Blink and gaze: a few frames at every EAR level in two gaze directions,
\* on a mapper that is fitted at some moment.
NextBlinkGaze ==
  \/ \E e \in EarInputs, landmarks \in LandmarkInputs :
       clock < MaxBlinkFrames /\ FaceFrame(1, e, landmarks)
  \/ hist.calls = 0 /\ Calibrate(GridSamples)

SpecBlinkGaze == Init /\ [][NextBlinkGaze]_vars

\* App: sessions that complete on the ten-target grid or one sample short,
\* the R key at any moment, frames with open eyes in two gaze directions.
AppSamples == {GridSamples, ShortSamples}

NextApp ==
  \/ \E samples \in AppSamples :
       hist.calls < MaxAppCalls /\ CalibrationComplete(samples)
  \/ hist.calls < MaxAppCalls /\ RecalibrateKey
  \/ \E landmarks \in LandmarkInputs :
       clock < MaxAppFrames /\ FaceFrame(1, GAZE_FREEZE_EAR, landmarks)

SpecApp == Init /\ [][NextApp]_vars

\* cleanFrames: a non-empty frame buffer of up to MaxCleanLen frames, either
\* frames as the calibration screen pushes them or frames with all the fields
\* of GazeFeatures, with values near each other and far away; cleanFrames
\* applied to it with every settleFrames up to MaxSettle.
CleanValues == {0, 10, 1000}

PushedFrames ==
  {[rx |-> v, ry |-> 500 - v, hx |-> 0, hy |-> v \div 10] : v \in CleanValues}

FullFrames ==
  {[rx |-> v, ry |-> 500 - v, hx |-> 0, hy |-> v \div 10,
    nx |-> 500 + v, ny |-> 500] : v \in CleanValues \ {10}}

CleanInputs ==
  UNION {[1..n -> PushedFrames] \cup [1..n -> FullFrames] : n \in 1..MaxCleanLen}

InitClean ==
  /\ clock = 0
  /\ blink = NewBlinkDetector
  /\ gaze = NewGazeMapper
  /\ lastGaze = [x |-> 0, y |-> 0]
  /\ recoveryCount = 0
  /\ eyeClosedStart = 0
  /\ eyeCloseSelectFired = FALSE
  /\ state = INITIAL_STATE
  /\ life = Started
  /\ screen \in {[NewScreen EXCEPT !.collecting = TRUE, !.frameBuffer = frames] :
                   frames \in CleanInputs}
  /\ app = [NewApp EXCEPT !.screen = "calibrating"]
  /\ board = NewBoard
  /\ frame = NoFrame
  /\ hist = NoHistory

\* GazeMapper.cleanFrames(frameBufferRef.current, settleFrames): the frames
\* it has taken, the values it has kept of every feature and the means.
CleanFrames(settleFrames) ==
  /\ frame' = [NoFrame EXCEPT
                 !.op = "cleanFrames", !.settle = settleFrames,
                 !.src = cleanSource(screen.frameBuffer, settleFrames),
                 !.kept = cleanKept(screen.frameBuffer, settleFrames),
                 !.cleaned = cleanFrames(screen.frameBuffer, settleFrames)]
  /\ UNCHANGED <<clock, blink, gaze, lastGaze, recoveryCount, eyeClosedStart,
                 eyeCloseSelectFired, state, life, screen, app, board, hist>>

NextClean == \E settleFrames \in 0..MaxSettle : CleanFrames(settleFrames)

SpecClean == InitClean /\ [][NextClean]_vars

(***************************************************************************)
(* Properties                                                              *)
(***************************************************************************)
IsFaceFrame == frame.op = "frame" /\ frame.face

\* C1: within a run of closed-eye frames processFrame computes
\* eyeCloseSelect = true on exactly one frame, the first one at which the
\* closure has lasted EYE_CLOSE_SELECT_SEC, and on no other frame; a run
\* that ends earlier fires nothing.
C1_SelectOncePerClosure ==
  IsFaceFrame =>
    ( frame.select <=>
        /\ hist.runStart # None
        /\ clock - hist.runStart >= EYE_CLOSE_SELECT_SEC
        /\ \/ hist.runPrev = None
           \/ hist.runPrev - hist.runStart < EYE_CLOSE_SELECT_SEC )

\* A closed-eye frame that follows the frame on which the closure fired.
C1_Witness ==
  /\ IsFaceFrame
  /\ ~frame.select
  /\ hist.runPrev # None
  /\ hist.runPrev - hist.runStart >= EYE_CLOSE_SELECT_SEC

\* C2: an edge flag that is true in one published snapshot is false in the
\* snapshot published for the next frame, with or without a face.
C2_OneFrameEdges ==
  [][ frame'.op = "frame" =>
        /\ state.doubleBlink => ~state'.doubleBlink
        /\ state.eyeCloseSelect => ~state'.eyeCloseSelect ]_vars

\* The raw linear prediction for the features of the last published frame.
RawOfSnapshot ==
  [ x |-> rawPrediction(state.features, gaze.coeffsX,
                        gaze.featMean, gaze.featStd),
    y |-> rawPrediction(state.features, gaze.coeffsY,
                        gaze.featMean, gaze.featStd) ]

\* C3: on a face frame with closed eyes, and on each of the first
\* GAZE_RECOVERY_FRAMES open-eye face frames after a closed one, predict is
\* not called and the reported point is the one reported before; on any
\* other face frame a fitted mapper predicts.
C3_FreezeGate ==
  [][ frame'.op = "frame" /\ frame'.face =>
        LET frozen == \/ blink'.ear < GAZE_FREEZE_EAR
                      \/ hist'.openRun \in 1..GAZE_RECOVERY_FRAMES
        IN /\ frozen => /\ ~frame'.predicted
                        /\ gaze' = gaze
                        /\ state'.gazeX = state.gazeX
                        /\ state'.gazeY = state.gazeY
           /\ ~frozen /\ isCalibrated(gaze) => frame'.predicted ]_vars

\* The first open-eye frame after the recovery frames, predicted again.
C3_Witness ==
  /\ IsFaceFrame
  /\ frame.resumed
  /\ hist.openRun = GAZE_RECOVERY_FRAMES + 1

\* C4: the first prediction after a freeze starts from reset smoothing
\* state: the buffers hold that prediction only and the point reported is the
\* clamped raw prediction.
C4_ResetOnResume ==
  frame.op = "frame" /\ frame.resumed =>
    /\ gaze.bufX = <<RawOfSnapshot.x>>
    /\ gaze.bufY = <<RawOfSnapshot.y>>
    /\ gaze.smoothX = RawOfSnapshot.x
    /\ gaze.smoothY = RawOfSnapshot.y
    /\ state.gazeX = Max(0, Min(innerWidth, RawOfSnapshot.x))
    /\ state.gazeY = Max(0, Min(innerHeight, RawOfSnapshot.y))

\* C5: calibrate with fewer than 10 samples returns false and changes no
\* field of the mapper.
C5_TooFewSamples ==
  [][ frame'.op = "calibrate" /\ frame'.n < 10 =>
        ~frame'.ok /\ gaze' = gaze ]_vars

\* A short sample list rejected by a mapper that holds a model and has
\* predicted with it.
C5_Witness ==
  /\ frame.op = "calibrate"
  /\ frame.n < 10
  /\ ~frame.ok
  /\ isCalibrated(gaze)
  /\ ~gaze.firstPrediction

\* C7: coeffsX, coeffsY, featMean and featStd are all absent, or all present
\* and all those of the last successful calibrate call.
C7_ModelAtomic ==
  \/ /\ gaze.coeffsX = NULL
     /\ gaze.coeffsY = NULL
     /\ gaze.featMean = NULL
     /\ gaze.featStd = NULL
  \/ /\ hist.fittedOn # NULL
     /\ gaze.coeffsX = FitTable[hist.fittedOn].cx
     /\ gaze.coeffsY = FitTable[hist.fittedOn].cy
     /\ gaze.featMean = FitTable[hist.fittedOn].featMean
     /\ gaze.featStd = FitTable[hist.fittedOn].featStd
     /\ gaze.coeffsX # NULL
     /\ gaze.coeffsY # NULL

\* A model that replaced an earlier one and then outlived a rejected
\* calibrate call.
C7_Witness ==
  /\ hist.fits >= 2
  /\ frame.op = "calibrate"
  /\ ~frame.ok
  /\ isCalibrated(gaze)

\* C8: every snapshot published while no model is fitted has
\* gazeValid = false.
C8_InvalidWhenUncalibrated ==
  frame.op = "frame" /\ ~isCalibrated(gaze) => ~state.gazeValid

\* C9: after an update doubleBlink is true exactly when that update
\* registered a blink within DOUBLE_BLINK_WINDOW_SEC of the blink retained
\* before it.
C9_DoubleBlinkIff ==
  [][ frame'.op = "frame" /\ frame'.face =>
        ( blink'.doubleBlink <=>
            /\ blink'.blinkCount = blink.blinkCount + 1
            /\ blink.blinkTimes # << >>
            /\ clock' - blink.blinkTimes[Len(blink.blinkTimes)]
                 <= DOUBLE_BLINK_WINDOW_SEC ) ]_vars

\* The second blink of a pair has just been registered.
C9_Witness == IsFaceFrame /\ frame.registered /\ blink.doubleBlink

\* C10: a doubleBlink takes two blinks registered since the previous
\* doubleBlink and leaves the history empty.
C10_HistoryCleared ==
  IsFaceFrame /\ blink.doubleBlink =>
    frame.sinceDouble >= 2 /\ blink.blinkTimes = << >>

\* A third blink within the window of the pair's second blink, not emitted.
C10_Witness ==
  /\ IsFaceFrame
  /\ frame.registered
  /\ ~blink.doubleBlink
  /\ hist.lastDouble # None
  /\ clock - hist.lastDouble <= DOUBLE_BLINK_WINDOW_SEC

\* C11: an update registers a blink (blinkCount + 1) exactly when its EAR is
\* at or above EAR_THRESHOLD and the run of below-threshold updates just
\* before it has BLINK_MIN_FRAMES..BLINK_MAX_FRAMES frames; otherwise
\* blinkCount is unchanged; the run counter is zero after every open frame.
C11_BlinkIffRunInRange ==
  [][ frame'.op = "frame" /\ frame'.face =>
        LET open == blink'.ear >= EAR_THRESHOLD
            inRange == /\ hist.blinkRun >= BLINK_MIN_FRAMES
                       /\ hist.blinkRun <= BLINK_MAX_FRAMES
        IN /\ blink'.blinkCount =
                blink.blinkCount + (IF open /\ inRange THEN 1 ELSE 0)
           /\ open => blink'.closedFrames = 0 ]_vars

\* An open frame that ends a closed run longer than BLINK_MAX_FRAMES.
C11_Witness ==
  /\ IsFaceFrame
  /\ blink.ear >= EAR_THRESHOLD
  /\ frame.run > BLINK_MAX_FRAMES
  /\ ~frame.registered

\* The moving-average point of a mapper: the mean of each buffer.
AvgOf(g) ==
  [ x |-> Sum(g.bufX) \div Len(g.bufX), y |-> Sum(g.bufY) \div Len(g.bufY) ]

\* Squared distance of the moving-average point of g from the output held
\* by h.
Dist2(g, h) ==
  (AvgOf(g).x - h.outputX) * (AvgOf(g).x - h.outputX)
    + (AvgOf(g).y - h.outputY) * (AvgOf(g).y - h.outputY)

\* C12: a predict call that follows another one with no calibration in
\* between changes the held output only if the new moving-average point is
\* more than MIN_MOVE_PX away from it; otherwise the held output and the
\* reported point are unchanged.
C12_DeadZone ==
  [][ frame'.op = "frame" /\ frame'.predicted /\ ~gaze.firstPrediction =>
        IF Dist2(gaze', gaze) > MIN_MOVE_PX * MIN_MOVE_PX
        THEN /\ gaze'.outputX = AvgOf(gaze').x
             /\ gaze'.outputY = AvgOf(gaze').y
        ELSE /\ gaze'.outputX = gaze.outputX
             /\ gaze'.outputY = gaze.outputY
             /\ state'.gazeX = state.gazeX
             /\ state'.gazeY = state.gazeY ]_vars

\* A prediction whose moving-average point left the held output by less
\* than the threshold, and was held.
C12_Witness ==
  /\ IsFaceFrame
  /\ frame.predicted
  /\ ~frame.moved
  /\ Len(gaze.bufX) >= 2
  /\ AvgOf(gaze).x # gaze.outputX

\* The k-th smallest element of a sequence of numbers.
KthSmallest(v, k) ==
  CHOOSE x \in {v[i] : i \in 1..Len(v)} :
    /\ Cardinality({i \in 1..Len(v) : v[i] < x}) < k
    /\ Cardinality({i \in 1..Len(v) : v[i] <= x}) >= k

Median(v) ==
  IF Len(v) % 2 = 1 THEN KthSmallest(v, (Len(v) + 1) \div 2)
  ELSE (KthSmallest(v, Len(v) \div 2)
          + KthSmallest(v, Len(v) \div 2 + 1)) \div 2

\* Euclidean prediction residual of each sample under the fit of the list.
Residuals(samples) ==
  LET fit == calibrateFit(samples)
  IN Arr([i \in 1..Len(samples) |->
            LET dx == rawPrediction(samples[i], fit.cx, fit.featMean,
                                    fit.featStd) - samples[i].screenX
                dy == rawPrediction(samples[i], fit.cy, fit.featMean,
                                    fit.featStd) - samples[i].screenY
            IN Sqrt(dx * dx + dy * dy)], Len(samples))

\* The samples the outlier pass fits on: those with a residual of at most
\* max(2.5 * median, 50 px), or all of them when fewer than 10 would remain.
PrunedSamples(samples) ==
  LET res == Residuals(samples)
      threshold == Max((5 * Median(res)) \div 2, 50)
      keep == {i \in 1..Len(samples) : res[i] <= threshold}
      RECURSIVE Kept(_)
      Kept(i) == IF i = 0 THEN << >>
                 ELSE IF i \in keep THEN Append(Kept(i - 1), samples[i])
                 ELSE Kept(i - 1)
  IN IF Cardinality(keep) >= 10 THEN Kept(Len(samples)) ELSE samples

\* The fit of every sample list after the outlier pass, computed once.
PrunedFitTable == [s \in SampleInputs |-> calibrateFit(PrunedSamples(s))]

\* C13: the model stored by calibrate is the fit on the samples left by the
\* residual-based outlier pass, which are never fewer than 10: the pruned
\* list when at least 10 samples remain, the whole list otherwise.
C13_OutlierPass ==
  isCalibrated(gaze) /\ hist.fittedOn # NULL =>
    /\ Len(PrunedSamples(hist.fittedOn)) >= MIN_SAMPLES
    /\ gaze.coeffsX = PrunedFitTable[hist.fittedOn].cx
    /\ gaze.coeffsY = PrunedFitTable[hist.fittedOn].cy
    /\ gaze.featMean = PrunedFitTable[hist.fittedOn].featMean
    /\ gaze.featStd = PrunedFitTable[hist.fittedOn].featStd

\* The normalised design matrix calibrate builds from a sample list.
designMatrix(samples) ==
  normalizeFeatures(Arr([i \in 1..Len(samples) |-> polyFeatures(samples[i])],
                        Len(samples))).A

\* C14: in the normal equations of a fit, lambda is added to the diagonal
\* entries of the coefficients 1..n only; the entry of the bias (index 0) is
\* that of AtA.
C14_BiasNotRegularized ==
  isCalibrated(gaze) /\ hist.fittedOn # NULL =>
    LET A == designMatrix(hist.fittedOn)
        AtA == matMul(transpose(A), A)
        N == normalMatrix(A, RIDGE_LAMBDA)
    IN /\ N[1][1] = AtA[1][1]
       /\ \A i \in 2..Len(N) : N[i][i] = AtA[i][i] + RIDGE_LAMBDA

C16_ExtractFeaturesPure ==
  [][ frame'.op = "frame" /\ frame'.face =>
        /\ state'.features =
             extractFeatures(NewGazeMapper, frame'.landmarks).features
        /\ gaze' = IF frame'.predicted
                   THEN predict(gaze, state'.features).g ELSE gaze ]_vars

\* Features extracted by a mapper that holds a model and smoothing history.
C16_Witness ==
  /\ IsFaceFrame
  /\ isCalibrated(gaze)
  /\ Len(gaze.bufX) >= 2
  /\ state.features.rx # INITIAL_STATE.features.rx

\* The stored model of a mapper.
ModelOf(g) == <<g.coeffsX, g.coeffsY, g.featMean, g.featStd>>

\* C17: a successful calibrate leaves the model a new GazeMapper gets from
\* the same samples, whatever the mapper held before; repeated with the
\* samples of the model in place, it leaves that model as it is.
C17_CalibrateIdempotent ==
  [][ frame'.op = "calibrate" /\ frame'.ok =>
        /\ ModelOf(gaze') =
             ModelOf(calibrate(NewGazeMapper, hist'.fittedOn).g)
        /\ frame'.repeat => ModelOf(gaze') = ModelOf(gaze) ]_vars

\* The same samples fitted again on a mapper that has predicted with them.
C17_Witness ==
  /\ frame.op = "calibrate"
  /\ frame.repeat
  /\ state.gazeValid
  /\ gaze.firstPrediction

\* C18: a frame without a face publishes faceDetected = false with the gaze
\* point of the previous snapshot and changes neither the blink detector,
\* the closure start and fired flag, the recovery counter, the held gaze
\* point nor the mapper.
C18_NoFaceOnlyFlag ==
  [][ frame'.op = "frame" /\ ~frame'.face =>
        /\ ~state'.faceDetected
        /\ state'.gazeX = state.gazeX
        /\ state'.gazeY = state.gazeY
        /\ blink' = blink
        /\ eyeClosedStart' = eyeClosedStart
        /\ eyeCloseSelectFired' = eyeCloseSelectFired
        /\ recoveryCount' = recoveryCount
        /\ lastGaze' = lastGaze
        /\ gaze' = gaze ]_vars

\* The face lost in the middle of a closure, with a blink in the history and
\* the recovery countdown armed.
C18_Witness ==
  /\ frame.op = "frame"
  /\ ~frame.face
  /\ ~state.faceDetected
  /\ blink.closedFrames > 0
  /\ blink.blinkTimes # << >>
  /\ eyeClosedStart > 0
  /\ recoveryCount > 0

\* C19: once init() has returned and the cleanup has run, whatever their
\* interleaving, the camera stream is not live and the landmarker is not
\* open.
C19_ResourcesReleased ==
  life.pc = "done" /\ life.cleaned =>
    life.stream # "live" /\ life.landmarker # "open"

\* C20: after the cleanup no frame is processed: a processFrame callback
\* reads no clock, changes no tracker state, publishes nothing and schedules
\* nothing, and init() neither publishes nor starts the loop.
C20_NoFrameAfterCleanup ==
  [][ life.cleaned =>
        /\ UNCHANGED <<clock, blink, gaze, lastGaze, recoveryCount,
                       eyeClosedStart, eyeCloseSelectFired, state>>
        /\ life'.isLoading = life.isLoading
        /\ life'.error = life.error
        /\ ~life'.running
        /\ life'.scheduled => life.scheduled ]_vars

\* The callback left pending by a running loop, called after the cleanup.
C20_Witness ==
  /\ frame.op = "stopped"
  /\ life.cleaned
  /\ clock > 0

\* C21: on every frame with a face, frozen or not and calibrated or not, the
\* features of the published snapshot are those extractFeatures computes from
\* the landmarks of that frame.
C21_FeaturesEveryFrame ==
  IsFaceFrame =>
    state.features = extractFeatures(gaze, frame.landmarks).features

\* A calibrated mapper on a frozen frame whose face looks elsewhere than the
\* last predicted point was computed from.
C21_Witness ==
  /\ IsFaceFrame
  /\ frame.frozen
  /\ isCalibrated(gaze)
  /\ state.gazeValid
  /\ rawPrediction(state.features, gaze.coeffsX, gaze.featMean, gaze.featStd)
       # gaze.smoothX

\* The features the collect effect pushes for a snapshot.
PushedFrame(ts) ==
  [ rx |-> ts.features.rx, ry |-> ts.features.ry,
    hx |-> ts.features.hx, hy |-> ts.features.hy ]

\* C22: a frame is appended to the stage buffer only if collection is active
\* (it was, or this step is the Space press that starts it), a face is
\* detected and the eyes are not closed; the stage completes exactly when the
\* buffer reaches FRAMES_PER_POINT frames, and then exactly one sample paired
\* with the current target is added, the buffer is emptied and collection
\* stops.
C22_StageBuffer ==
  [][ LET grown == Len(screen'.frameBuffer) > Len(screen.frameBuffer)
          sampled == screen'.samples # screen.samples
          full == Len(screen.frameBuffer) + 1 >= FRAMES_PER_POINT
          valid == /\ screen.collecting \/ frame'.op = "space"
                   /\ state'.faceDetected
                   /\ ~state'.eyesClosed
          target == screen.points[screen.currentIndex + 1]
      IN /\ grown \/ sampled => valid
         /\ grown => /\ screen'.frameBuffer
                          = Append(screen.frameBuffer, PushedFrame(state'))
                     /\ screen'.collecting
         /\ sampled <=> valid /\ full /\ frame'.op = "frame"
         /\ sampled =>
              /\ Len(screen'.samples) = Len(screen.samples) + 1
              /\ SubSeq(screen'.samples, 1, Len(screen.samples))
                   = screen.samples
              /\ screen'.samples[Len(screen'.samples)].screenX = target.x
              /\ screen'.samples[Len(screen'.samples)].screenY = target.y
              /\ screen'.frameBuffer = << >>
              /\ ~screen'.collecting
         /\ Len(screen'.frameBuffer) < FRAMES_PER_POINT ]_vars

\* A stage has just completed although the eyes were closed on one of the
\* frames that arrived during it.
C22_Witness ==
  /\ frame.op = "frame"
  /\ Len(screen.samples) = 1
  /\ screen.frameBuffer = << >>
  /\ ~screen.collecting
  /\ recoveryCount > 0
  /\ clock > FRAMES_PER_POINT

\* C23: a stage starts only on a Space press while idle, a Space press while
\* collecting or after completion changes nothing, the stages visit the
\* targets in order, and onComplete is called exactly once, when the last
\* stage finishes, with one sample per target in target order.
C23_StagedSession ==
  /\ [][ LET n == Len(screen.points)
         IN /\ screen'.collecting /\ ~screen.collecting =>
                 frame'.op = "space" /\ ~screen.done
            /\ frame'.op = "space" /\ (screen.collecting \/ screen.done) =>
                 screen' = screen
            /\ screen'.currentIndex # screen.currentIndex =>
                 /\ screen'.currentIndex = screen.currentIndex + 1
                 /\ Len(screen'.samples) = screen'.currentIndex
            /\ screen'.completed # screen.completed =>
                 /\ screen.completed = << >>
                 /\ Len(screen.samples) = n - 1
                 /\ screen'.completed = << screen'.samples >>
                 /\ screen'.done ]_vars
  /\ [] LET n == Len(screen.points)
        IN /\ Len(screen.completed) <= 1
           /\ screen.done <=> Len(screen.completed) = 1
           /\ Len(screen.samples) <= n
           /\ Len(screen.samples) = n <=> screen.done
           /\ \A i \in 1..Len(screen.samples) :
                /\ screen.samples[i].screenX = screen.points[i].x
                /\ screen.samples[i].screenY = screen.points[i].y
           /\ screen.done =>
                /\ Len(screen.completed[1]) = n
                /\ screen.completed[1] = screen.samples

\* Space pressed after the last stage has finished and onComplete was called.
C23_Witness ==
  /\ screen.done
  /\ Len(screen.completed) = 1
  /\ Len(screen.completed[1])
       = CALIBRATION_GRID_ROWS * CALIBRATION_GRID_COLS
  /\ frame.op = "space"

\* C24: the first predict after a successful calibrate is a first
\* prediction: the EMA and the held output are the raw prediction of that
\* frame, the ring buffer holds that value alone, and the point returned is
\* the raw prediction clamped to the screen, whatever was predicted before
\* the calibration.
C24_RecalibrationResetsSmoothing ==
  IsFaceFrame /\ frame.predicted /\ hist.predicts = 1 =>
    /\ gaze.smoothX = RawOfSnapshot.x
    /\ gaze.smoothY = RawOfSnapshot.y
    /\ gaze.outputX = RawOfSnapshot.x
    /\ gaze.outputY = RawOfSnapshot.y
    /\ gaze.bufX = << RawOfSnapshot.x >>
    /\ gaze.bufY = << RawOfSnapshot.y >>
    /\ state.gazeX = Max(0, Min(innerWidth, RawOfSnapshot.x))
    /\ state.gazeY = Max(0, Min(innerHeight, RawOfSnapshot.y))

\* The first prediction under a second model, after predictions under the
\* first one.
C24_Witness ==
  /\ IsFaceFrame
  /\ frame.predicted
  /\ hist.predicts = 1
  /\ hist.stale
  /\ hist.fits >= 2

\* C25: bufX and bufY have the same length, never more than MOVING_AVG_SIZE,
\* and after each predict they hold the most recent min(k, MOVING_AVG_SIZE)
\* smoothed values in arrival order, k being the number of predictions since
\* the last reset or calibration.
C25_RingBuffer ==
  /\ Len(gaze.bufX) = Len(gaze.bufY)
  /\ Len(gaze.bufX) <= MOVING_AVG_SIZE
  /\ IsFaceFrame /\ frame.predicted =>
       LET k == hist.predicts
           m == Min(k, MOVING_AVG_SIZE)
       IN /\ Len(hist.smoothed) = k
          /\ gaze.bufX = [i \in 1..m |-> hist.smoothed[k - m + i][1]]
          /\ gaze.bufY = [i \in 1..m |-> hist.smoothed[k - m + i][2]]

\* More predictions than the buffer holds, the gaze having moved meanwhile.
C25_Witness ==
  /\ IsFaceFrame
  /\ frame.predicted
  /\ hist.predicts > MOVING_AVG_SIZE
  /\ gaze.bufX[1] # gaze.bufX[MOVING_AVG_SIZE]
  /\ hist.smoothed[1][1] # gaze.bufX[1]

\* C26: every blink time retained is less than 2 x DOUBLE_BLINK_WINDOW_SEC
\* older than the blink registered last, and the history never holds more
\* than 2 entries.
C26_BlinkHistoryBounded ==
  LET times == blink.blinkTimes
  IN /\ Len(times) <= 2
     /\ \A i \in 1..Len(times) :
          times[Len(times)] - times[i] < DOUBLE_BLINK_WINDOW_SEC * 2
     /\ IsFaceFrame /\ frame.registered /\ ~blink.doubleBlink =>
          times[Len(times)] = clock

\* A third blink registered without any double blink: the first one has been
\* dropped, the second one is retained.
C26_Witness ==
  /\ IsFaceFrame
  /\ frame.registered
  /\ blink.blinkCount >= 3
  /\ hist.lastDouble = None
  /\ Len(blink.blinkTimes) = 2

GAZE_SENSITIVITY == 90            \* 0.9, in hundredths

\* Sensitivity scaling of a raw prediction about the centre of a screen
\* dimension: center + (raw - center) x GAZE_SENSITIVITY.
scaleAboutCenter(raw, size) ==
  LET center == size \div 2
  IN center + ((raw - center) * GAZE_SENSITIVITY) \div 100

\* C27: predict scales the raw prediction about the screen centre before the
\* EMA, moving-average, dead-zone and clamp stages; on a first prediction,
\* where those stages pass their input through, the point returned is the
\* scaled raw prediction clamped to the screen.
C27_SensitivityScaling ==
  IsFaceFrame /\ frame.predicted /\ hist.predicts = 1 =>
    /\ state.gazeX
         = Max(0, Min(innerWidth, scaleAboutCenter(RawOfSnapshot.x, innerWidth)))
    /\ state.gazeY
         = Max(0, Min(innerHeight,
                      scaleAboutCenter(RawOfSnapshot.y, innerHeight)))

\* C28: an eye whose corners are no further apart than 1e-6 in x contributes
\* rx = 0.5 and ry = 0, eye corners at no distance give hx = hy = 0, an eye
\* whose contour has no horizontal extent has the EAR 0.3, and so every
\* feature and the EAR are numbers.
C28_DegenerateLandmarks ==
  IsFaceFrame =>
    LET lm == frame.landmarks
        f == state.features
        lW == Abs(lm.LEFT_EYE_OUTER.x - lm.LEFT_EYE_INNER.x)
        rW == Abs(lm.RIGHT_EYE_OUTER.x - lm.RIGHT_EYE_INNER.x)
        lRx == IF lW = 0 THEN FP \div 2
               ELSE ((irisCenter(lm.LEFT_IRIS).x - lm.LEFT_EYE_INNER.x) * FP)
                      \div lW
        rRx == IF rW = 0 THEN FP \div 2
               ELSE ((irisCenter(lm.RIGHT_IRIS).x - lm.RIGHT_EYE_INNER.x) * FP)
                      \div rW
        lRy == IF lW = 0 THEN 0
               ELSE ((irisCenter(lm.LEFT_IRIS).y
                        - (lm.LEFT_EYE_INNER.y + lm.LEFT_EYE_OUTER.y) \div 2)
                       * FP) \div lW
        rRy == IF rW = 0 THEN 0
               ELSE ((irisCenter(lm.RIGHT_IRIS).y
                        - (lm.RIGHT_EYE_INNER.y + lm.RIGHT_EYE_OUTER.y) \div 2)
                       * FP) \div rW
        lEar == IF dist(lm.LEFT_EYE[1], lm.LEFT_EYE[4]) = 0 THEN 30
                ELSE computeEAR(lm.LEFT_EYE)
        rEar == IF dist(lm.RIGHT_EYE[1], lm.RIGHT_EYE[4]) = 0 THEN 30
                ELSE computeEAR(lm.RIGHT_EYE)
    IN /\ f.rx = (lRx + rRx) \div 2
       /\ f.ry = (lRy + rRy) \div 2
       /\ lm.LEFT_EYE_INNER = lm.RIGHT_EYE_INNER => f.hx = 0 /\ f.hy = 0
       /\ state.ear = (lEar + rEar) \div 2
       /\ \A v \in {f.rx, f.ry, f.hx, f.hy, f.nx, f.ny, state.ear} : v \in Int

\* A frame on which both eye widths, the distance of the inner corners and
\* both contour widths are zero.
C28_Witness ==
  /\ IsFaceFrame
  /\ frame.landmarks.LEFT_EYE_OUTER = frame.landmarks.LEFT_EYE_INNER
  /\ frame.landmarks.RIGHT_EYE_OUTER = frame.landmarks.RIGHT_EYE_INNER
  /\ frame.landmarks.LEFT_EYE_INNER = frame.landmarks.RIGHT_EYE_INNER
  /\ state.features.rx = FP \div 2
  /\ state.ear = EAR_DEFAULT

\* C29: a closure that has fired closure-select registers no blink on the
\* frame that ends it, the first frame with open eyes after it.
C29_OneGesturePerClosure ==
  IsFaceFrame /\ hist.openRun = 1 /\ eyeCloseSelectFired => ~frame.registered

\* C30: a snapshot published with gazeValid = true carries a point predict
\* has returned under the model fitted at that moment: predict has run since
\* the last successful calibration or reset.
C30_ValidGazeIsCurrent ==
  frame.op = "frame" /\ state.gazeValid => hist.predicts > 0

\* C31: on the frame that emits eyeCloseSelect the published gaze point is
\* the point of the snapshot published last before that closure began; no
\* frame of the closure, with or without a face, has changed it.
C31_SelectAtPointBeforeClosure ==
  IsFaceFrame /\ frame.select
    => <<state.gazeX, state.gazeY>> = hist.gazeAtClosure

\* eyeCloseSelect is emitted for a closure that began after the fitted
\* mapper had moved the point away from the origin.
C31_Witness ==
  /\ IsFaceFrame /\ frame.select
  /\ isCalibrated(gaze)
  /\ hist.predicts > 0
  /\ hist.gazeAtClosure # <<0, 0>>

\* C32: between the start of a closure and the next frame that shows the
\* eyes open, at most one call of triggerSelect passes the cooldown check,
\* whatever frames arrive and whatever the board shows.
C32_OneSelectionPerClosure == hist.closureAccepts <= 1

\* C33: a call of triggerSelect that passes the cooldown check comes at
\* least SELECTION_COOLDOWN_SEC after the one that passed before it, and a
\* call the cooldown rejects leaves the component as it was: the category,
\* the hovered and the selected index, the last message and
\* lastSelectionRef.
C33_SelectionCooldown ==
  /\ \A k \in 1..Len(board.calls) :
       LET c == board.calls[k]
       IN IF c.now - c.before.lastSelection
               < SELECTION_COOLDOWN_SEC * TICK_MS
          THEN c.after = c.before
          ELSE c.after.lastSelection = c.now
  /\ frame.accepted /\ frame.sinceAccept # None
       => frame.sinceAccept >= SELECTION_COOLDOWN_SEC

\* The cooldown has rejected a call made for a hovered button after an
\* earlier selection.
C33_Witness ==
  /\ hist.lastAccept # None
  /\ \E k \in 1..Len(board.calls) :
       LET c == board.calls[k]
       IN /\ c.now - c.before.lastSelection < SELECTION_COOLDOWN_SEC * TICK_MS
          /\ c.before.lastSelection > 0
          /\ c.before.hoveredIndex # None

\* C34: recoveryCountRef stays within 0..GAZE_RECOVERY_FRAMES; a face
\* frame with closed eyes sets it to GAZE_RECOVERY_FRAMES, also during a
\* recovery; a frozen face frame with open eyes decreases it by exactly one;
\* every other step leaves it alone; and before the first closed frame it is
\* 0 and no face frame is frozen.
C34_RecoveryCountdown ==
  /\ [](recoveryCount \in 0..GAZE_RECOVERY_FRAMES)
  /\ [](hist.openRun = None
          => recoveryCount = 0 /\ (IsFaceFrame => ~frame.frozen))
  /\ [][IF clock' # clock /\ frame'.face
        THEN IF state'.eyesClosed
             THEN recoveryCount' = GAZE_RECOVERY_FRAMES /\ frame'.frozen
             ELSE IF frame'.frozen
             THEN recoveryCount > 0 /\ recoveryCount' = recoveryCount - 1
             ELSE recoveryCount = 0 /\ recoveryCount' = 0
        ELSE recoveryCount' = recoveryCount]_vars

\* A recovery is under way: the frame showed the eyes open, was frozen and
\* left part of the countdown.
C34_Witness ==
  /\ IsFaceFrame /\ ~state.eyesClosed /\ frame.frozen
  /\ recoveryCount \in 1..(GAZE_RECOVERY_FRAMES - 2)

\* The smoothing state of the mapper and the last predicted point.
Smoothing ==
  [ smoothX |-> gaze.smoothX, smoothY |-> gaze.smoothY,
    outputX |-> gaze.outputX, outputY |-> gaze.outputY,
    firstPrediction |-> gaze.firstPrediction,
    bufX |-> gaze.bufX, bufY |-> gaze.bufY, lastGaze |-> lastGaze ]

\* C35: a face frame that BlinkDetector.update counts into a closed run
\* (closedFrames goes up) is frozen by the gaze gate: predict is not
\* called and the smoothing state and the last predicted point stay as
\* they were.
C35_BlinkFramesFrozen ==
  [][/\ clock' # clock
     /\ frame'.face
     /\ blink'.closedFrames > blink.closedFrames
     => /\ state'.eyesClosed
        /\ frame'.frozen
        /\ ~frame'.predicted
        /\ Smoothing' = Smoothing]_vars

\* A frame of a closed run on a fitted mapper that has predicted the
\* top-left target, while the face now looks at the bottom-right one.
C35_Witness ==
  /\ IsFaceFrame
  /\ blink.closedFrames > 0
  /\ isCalibrated(gaze)
  /\ hist.predicts > 0
  /\ lastGaze.x < 400
  /\ state.features.rx = 700

\* C36: in a snapshot published for a frame with a face, open eyes come
\* with eyeClosedSec = 0 and eyeCloseSelect = false, and eyeCloseSelect = true
\* comes with closed eyes and eyeClosedSec >= EYE_CLOSE_SELECT_SEC;
\* eyeClosedSec is 0 on the first frame of a closure and does not decrease
\* from one frame of the closure to the next.
C36_ClosureSnapshot ==
  /\ [](state.faceDetected =>
          /\ ~state.eyesClosed
               => state.eyeClosedSec = 0 /\ ~state.eyeCloseSelect
          /\ state.eyeCloseSelect
               => state.eyesClosed
                  /\ state.eyeClosedSec >= EYE_CLOSE_SELECT_SEC
          /\ state.eyesClosed /\ hist.runStart = clock
               => state.eyeClosedSec = 0)
  /\ [][/\ clock' # clock
        /\ frame'.face
        /\ state'.eyesClosed
        /\ hist.runStart # None
        => state'.eyeClosedSec >= state.eyeClosedSec]_vars

\* A closure that has gone on after its select event: the snapshot shows
\* closed eyes for longer than EYE_CLOSE_SELECT_SEC and no select.
C36_Witness ==
  /\ state.faceDetected
  /\ state.eyesClosed
  /\ state.eyeClosedSec > EYE_CLOSE_SELECT_SEC
  /\ ~state.eyeCloseSelect
  /\ hist.runStart > 1

\* C37: from the R key until a calibrate call succeeds the mapper holds no
\* model: isCalibrated is false and every face frame publishes
\* gazeValid = false, also after a session that completed with a failing
\* calibrate; and every completed session, failed or not, leaves the App on
\* the communicating screen.
C37_RecalibrateDiscardsModel ==
  /\ hist.recalibrating
       => /\ ~isCalibrated(gaze)
          /\ gaze.coeffsY = NULL
          /\ IsFaceFrame => ~state.gazeValid
  /\ frame.op = "recalibrate" => hist.recalibrating
  /\ frame.op = "complete"
       => /\ app.screen = "communicating"
          /\ frame.ok => ~hist.recalibrating /\ isCalibrated(gaze)

\* A fitted model, then R, then a session that completed one sample short:
\* the board is shown on a mapper without a model.
C37_Witness ==
  /\ hist.fits > 0
  /\ hist.recalibrating
  /\ frame.op = "complete"
  /\ ~frame.ok
  /\ app.screen = "communicating"

\* C38: from the moment init() has started the loop until the cleanup,
\* exactly one processFrame callback is pending: every run of processFrame
\* while running (video not ready, face, no face) requests exactly one next
\* run, and after the cleanup no run requests another.
C38_OneFrameLoop ==
  /\ [](/\ life.running => life.pending = 1 /\ life.scheduled
        /\ life.pending \in {0, 1}
        /\ ~life.isLoading /\ ~life.error /\ ~life.cleaned => life.running
        /\ life.pc # "done" => life.pending = 0)
  /\ [][/\ life.running /\ life'.running
           /\ frame'.op \in {"frame", "notready"}
           => life'.pending = life.pending
        /\ ~life.running /\ life.pc = "done"
           => life'.pending <= life.pending]_vars

\* The loop has run on all three paths: frames with and without a face have
\* been processed, the last run found the video not ready, and one callback
\* is pending.
C38_Witness ==
  /\ frame.op = "notready"
  /\ life.running
  /\ life.pending = 1
  /\ clock >= 2
  /\ ~state.faceDetected
  /\ state.features # INITIAL_STATE.features

\* C39: cleanFrames on a non-empty frame list takes the frames after the
\* first settleFrames when the list has more than settleFrames frames and
\* the whole list otherwise; for every feature removeOutliers returns a
\* non-empty selection of the values it is given, and the mean returned is a
\* number.
C39_CleanFramesMeans ==
  frame.op = "cleanFrames" =>
    LET frames == screen.frameBuffer
        n == Len(frames)
    IN /\ frame.src = IF n > frame.settle
                      THEN SubSeq(frames, frame.settle + 1, n)
                      ELSE frames
       /\ \A name \in FeatureNames :
            LET input == column(frame.src, name)
                kept == frame.kept[name]
            IN /\ kept # << >>
               /\ Len(kept) <= Len(input)
               /\ \A i \in 1..Len(kept) :
                    \E j \in 1..Len(input) : input[j] = kept[i]
               /\ ~meanIsNaN(kept)

====
